---- MODULE Spec2Model ----
(***************************************************************************)
(* Verification development for the Quant-Sol backtesting engine           *)
(* (src/src/backtesting/backtester.rs).                                    *)
(*                                                                         *)
(* The engine is a struct `Backtester` whose fields are the variables      *)
(* below; `run_backtest` is modelled as a loop with one step per element   *)
(* of the input slice.  f64 values are modelled as exact extended          *)
(* rationals <<n, d>> (d > 0 in lowest terms, or d = 0 for the non-finite  *)
(* values: <<1,0>> = +inf, <<-1,0>> = -inf, <<0,0>> = NaN); rounding is    *)
(* not modelled.  Option<T> is <<>> (None) or <<x>> (Some(x)).             *)
(***************************************************************************)
EXTENDS Integers, Sequences, FiniteSets, TLC

(***************************************************************************)
(* Bounds of the model.                                                    *)
(***************************************************************************)
\* longest input slice handed to run_backtest
MaxTicks == 3
\* the wall clock takes the values 0..MaxClock
MaxClock == 1
\* the small processors have max_history_size 0..MaxCapacity
MaxCapacity == 5
\* most prices passed to a small processor
MaxArrivals == 6
\* most prices passed to the large processor
MaxRamp == 21
\* calculate_rsi is also evaluated for the periods 2..MaxPeriod
MaxPeriod == 3
\* most prices passed to the processor of the unit tests
MaxTestPrices == 6
\* most elements of a vector passed to process_batch
MaxBatch == 3

(***************************************************************************)
(* f64 arithmetic on extended rationals.                                   *)
(***************************************************************************)
Abs(n) == IF n < 0 THEN -n ELSE n

Sgn(n) == IF n < 0 THEN -1 ELSE IF n > 0 THEN 1 ELSE 0

RECURSIVE Gcd(_, _)
Gcd(a, b) == IF b = 0 THEN a ELSE Gcd(b, a % b)

\* the value n/d; a zero divisor gives +-inf or NaN as in IEEE 754 with d = +0.0
RNorm(n, d) ==
    IF d = 0 THEN <<Sgn(n), 0>>
    ELSE LET g == Gcd(Abs(n), Abs(d))
             s == Sgn(d) * Sgn(n)
         IN  <<s * (Abs(n) \div g), Abs(d) \div g>>

R(n) == <<n, 1>>

NaN == <<0, 0>>

IsNaN(a) == a = NaN

IsInf(a) == a[2] = 0 /\ a[1] # 0

IsFinite(a) == a[2] # 0

RNeg(a) == <<-a[1], a[2]>>

RAdd(a, b) ==
    IF IsNaN(a) \/ IsNaN(b) THEN NaN
    ELSE IF IsInf(a) THEN (IF IsInf(b) /\ b # a THEN NaN ELSE a)
    ELSE IF IsInf(b) THEN b
    ELSE RNorm(a[1] * b[2] + b[1] * a[2], a[2] * b[2])

RSub(a, b) == RAdd(a, RNeg(b))

RMul(a, b) ==
    IF IsNaN(a) \/ IsNaN(b) THEN NaN
    ELSE IF IsInf(a) \/ IsInf(b) THEN <<Sgn(a[1]) * Sgn(b[1]), 0>>
    ELSE RNorm(a[1] * b[1], a[2] * b[2])

RDiv(a, b) ==
    IF IsNaN(a) \/ IsNaN(b) THEN NaN
    ELSE IF IsInf(b) THEN (IF IsInf(a) THEN NaN ELSE R(0))
    ELSE IF IsInf(a) THEN <<Sgn(a[1]) * (IF b[1] < 0 THEN -1 ELSE 1), 0>>
    ELSE RNorm(a[1] * b[2], a[2] * b[1])

\* a < b; every comparison with NaN is false
RLt(a, b) ==
    IF IsNaN(a) \/ IsNaN(b) THEN FALSE
    ELSE IF IsInf(a) \/ IsInf(b)
         THEN a # b /\ (a = <<-1, 0>> \/ b = <<1, 0>>)
    ELSE a[1] * b[2] < b[1] * a[2]

RGt(a, b) == RLt(b, a)

\* f64::max and f64::min return the other operand when one is NaN
RMax(a, b) == IF IsNaN(a) THEN b ELSE IF IsNaN(b) THEN a ELSE IF RLt(a, b) THEN b ELSE a

RMin(a, b) == IF IsNaN(a) THEN b ELSE IF IsNaN(b) THEN a ELSE IF RLt(b, a) THEN b ELSE a

(***************************************************************************)
(* Option<T>.                                                              *)
(***************************************************************************)
None == <<>>

Some(x) == <<x>>

IsSome(o) == o # <<>>

Unwrap(o) == o[1]

(***************************************************************************)
(* Types of backtester.rs.                                                 *)
(***************************************************************************)
\* enum PositionType
PositionType == {"Long", "Short"}

\* enum StrategyMode; the strings are the Debug renderings used for strategy_name
StrategyMode == {"Rsi", "BollingerBands", "Combined"}

\* enum TradeSignal
TradeSignal == {"Buy", "Sell", "Hold", "Long", "Short"}

\* rsi::SignalType and bollinger_bands::SignalType, what a producer returns for a tick
SignalType == {"Buy", "Sell", "Hold"}

\* (initial_capital, position_size, commission_rate) triples passed to
\* Backtester::new.  ValidConfigs: the position size and commission rate of the
\* unit tests (1000.0, 0.001) on a capital of 1000.  Configs adds one triple at
\* each limit of the arguments; new accepts any three f64 values.
ValidConfigs ==
    { [initial_capital |-> R(1000), position_size |-> R(1000), commission_rate |-> RNorm(1, 1000)] }

\* the same with no commission (commission_rate >= 0 is valid)
ZeroFeeConfigs ==
    { [initial_capital |-> R(1000), position_size |-> R(1000), commission_rate |-> R(0)] }

Configs ==
    ValidConfigs \cup
    { [initial_capital |-> R(0),    position_size |-> R(1000), commission_rate |-> RNorm(1, 1000)],
      [initial_capital |-> R(1000), position_size |-> R(0),    commission_rate |-> RNorm(1, 1000)],
      [initial_capital |-> R(1000), position_size |-> R(1000), commission_rate |-> RNorm(-1, 1000)] }

\* instruments and prices of the input ticks
Symbols == {"SOL"}

\* the instruments of an input that mixes two: the symbol main fetches and the
\* symbol of the unit tests
Instruments == {"SOL", "TEST"}

Prices == {R(100), R(200)}

\* one element of the input slice, a ProcessedMarketData: the raw_data fields the
\* engine reads, and the classification each producer returns for the element
MarketData(symbol, timestamp, price, rsi, boll) ==
    [symbol |-> symbol, timestamp |-> timestamp, price |-> price,
     rsi_signal |-> rsi, bollinger_signal |-> boll]

\* what one element can be, apart from its timestamp: <<rsi, bollinger>> pairs
\* are the two producers' classifications of the element
TickChoices(symbols, prices, signals) ==
    { [symbol |-> s, price |-> p, rsi_signal |-> ab[1], bollinger_signal |-> ab[2]] :
        s \in symbols, p \in prices, ab \in signals }

\* producer outputs that give every decision (Buy, Sell, Hold, no trade) in
\* every strategy mode that has it
LedgerSignals ==
    { <<"Buy", "Sell">>, <<"Sell", "Buy">>, <<"Hold", "Buy">>, <<"Sell", "Hold">> }

\* every pair of producer outputs, on one price
AllSignals == SignalType \X SignalType

SignalTicks == TickChoices(Symbols, {R(100)}, AllSignals)

LedgerTicks == TickChoices(Symbols, Prices, LedgerSignals)

(***************************************************************************)
(* State: the fields of struct Backtester, the position of run_backtest,   *)
(* the environment (wall clock, caller), and the fields of struct          *)
(* DataProcessor (src/src/data/processing.rs).                             *)
(***************************************************************************)
VARIABLES
    initial_capital,    \* f64
    position_size,      \* f64
    commission_rate,    \* f64
    strategy_mode,      \* StrategyMode
    trades,             \* Vec<Trade>: the closed trades
    current_position,   \* HashMap<String, Option<Trade>>: function on the symbols present
    equity_curve,       \* Vec<EquityPoint>
    pc,                 \* "idle" (constructed), "loop" (inside run_backtest), "done" (returned)
    data,               \* the slice passed to run_backtest, as far as the loop has read it
    i,                  \* loop index of run_backtest (0-based)
    result,             \* Option<BacktestResult>: what the call returned
    clock,              \* the wall clock read by Utc::now()
    reused,             \* the call in progress / last made was not the engine's first
    live,               \* per symbol: positions opened in this run minus positions closed
    kept,               \* Option: a result the caller kept from an earlier run
    price_history,      \* DataProcessor: VecDeque<f64>, oldest price first
    max_history_size,   \* DataProcessor: usize
    processed,          \* Option<ProcessedMarketData>: what the last process_data returned
    arrived,            \* the prices passed to process_data so far, in order
    processed_data      \* Option<Vec<ProcessedMarketData>>: what the last process_batch returned

\* the fields of struct DataProcessor and what its caller has passed and received
processor_vars == <<price_history, max_history_size, processed, arrived, processed_data>>

vars == <<initial_capital, position_size, commission_rate, strategy_mode, trades,
          current_position, equity_curve, pc, data, i, result, clock, reused, live, kept,
          price_history, max_history_size, processed, arrived, processed_data>>

(***************************************************************************)
(* The signal producers (strategies/rsi.rs, strategies/bollinger_bands.rs) *)
(* are consumed through their contract: one classification per element,    *)
(* in input order.  The classification is carried with the element.        *)
(***************************************************************************)
\* RsiStrategy::analyze_batch(data): one RsiSignal per element
RsiAnalyzeBatch(d) == [k \in 1..Len(d) |-> d[k].rsi_signal]

\* BollingerBands::analyze(market_data), called once per element in order
BollingerAnalyze(market_data) == market_data.bollinger_signal

(***************************************************************************)
(* Signal aggregation (run_backtest, signals_agree, the two converters).   *)
(***************************************************************************)
\* mutant: only two equal active signals agree; an active signal beside a Hold does not
SignalsAgreeSameOnly(rsi_signal, bollinger_signal) ==
    \/ rsi_signal = "Buy"  /\ bollinger_signal = "Buy"
    \/ rsi_signal = "Sell" /\ bollinger_signal = "Sell"

\* mutant: any tick with an active signal agrees, opposite signals included
SignalsAgreeAnyActive(rsi_signal, bollinger_signal) ==
    rsi_signal # "Hold" \/ bollinger_signal # "Hold"

SignalsAgree(rsi_signal, bollinger_signal) ==
    \/ rsi_signal = "Buy"  /\ bollinger_signal = "Buy"
    \/ rsi_signal = "Sell" /\ bollinger_signal = "Sell"
    \/ rsi_signal = "Buy"  /\ bollinger_signal = "Hold"
    \/ rsi_signal = "Hold" /\ bollinger_signal = "Buy"
    \/ rsi_signal = "Sell" /\ bollinger_signal = "Hold"
    \/ rsi_signal = "Hold" /\ bollinger_signal = "Sell"

\* mutant: a Hold of the RSI producer is converted to Buy
ConvertRsiHoldBuys(signal) ==
    CASE signal = "Buy"  -> "Buy"
      [] signal = "Sell" -> "Sell"
      [] signal = "Hold" -> "Buy"

ConvertRsiToTradeSignal(signal) ==
    CASE signal = "Buy"  -> "Buy"
      [] signal = "Sell" -> "Sell"
      [] signal = "Hold" -> "Hold"

ConvertBollingerToTradeSignal(signal) ==
    CASE signal = "Buy"  -> "Buy"
      [] signal = "Sell" -> "Sell"
      [] signal = "Hold" -> "Hold"

\* mutant: in Combined mode the decision is always taken from the RSI signal
TradeDecisionFromRsi(mode, rsi_signal, bollinger_signal) ==
    CASE mode = "Rsi" -> Some(ConvertRsiToTradeSignal(rsi_signal))
      [] mode = "BollingerBands" -> Some(ConvertBollingerToTradeSignal(bollinger_signal))
      [] mode = "Combined" ->
            IF SignalsAgree(rsi_signal, bollinger_signal)
            THEN Some(ConvertRsiToTradeSignal(rsi_signal))
            ELSE None

\* mutant: the agreement test is applied in every mode
TradeDecisionAgreeing(mode, rsi_signal, bollinger_signal) ==
    IF ~SignalsAgree(rsi_signal, bollinger_signal) THEN None
    ELSE CASE mode = "Rsi" -> Some(ConvertRsiToTradeSignal(rsi_signal))
           [] mode = "BollingerBands" -> Some(ConvertBollingerToTradeSignal(bollinger_signal))
           [] mode = "Combined" ->
                 IF bollinger_signal \in {"Buy", "Sell"}
                 THEN Some(ConvertBollingerToTradeSignal(bollinger_signal))
                 ELSE Some(ConvertRsiToTradeSignal(rsi_signal))

\* mutant: in Combined mode an active Bollinger signal is taken without the
\* agreement test
TradeDecisionBollingerFirst(mode, rsi_signal, bollinger_signal) ==
    CASE mode = "Rsi" -> Some(ConvertRsiToTradeSignal(rsi_signal))
      [] mode = "BollingerBands" -> Some(ConvertBollingerToTradeSignal(bollinger_signal))
      [] mode = "Combined" ->
            IF bollinger_signal \in {"Buy", "Sell"}
            THEN Some(ConvertBollingerToTradeSignal(bollinger_signal))
            ELSE IF SignalsAgree(rsi_signal, bollinger_signal)
            THEN Some(ConvertRsiToTradeSignal(rsi_signal))
            ELSE None

\* the match on self.strategy_mode in the loop body: Some(signal) when
\* should_trade is set, None when execute_trade is not called
TradeDecision(mode, rsi_signal, bollinger_signal) ==
    CASE mode = "Rsi" -> Some(ConvertRsiToTradeSignal(rsi_signal))
      [] mode = "BollingerBands" -> Some(ConvertBollingerToTradeSignal(bollinger_signal))
      [] mode = "Combined" ->
            IF SignalsAgree(rsi_signal, bollinger_signal)
            THEN IF bollinger_signal \in {"Buy", "Sell"}
                 THEN Some(ConvertBollingerToTradeSignal(bollinger_signal))
                 ELSE Some(ConvertRsiToTradeSignal(rsi_signal))
            ELSE None

(***************************************************************************)
(* The position ledger (execute_trade).                                    *)
(***************************************************************************)
CalculateCommission(rate, trade_value) == RMul(trade_value, rate)

\* the ledger state of a symbol: Some(trade) when a position is open, None when Flat
PositionOf(positions, symbol) ==
    IF symbol \in DOMAIN positions THEN positions[symbol] ELSE None

\* mutant: the lookup misses the entry (as a lookup under another key would)
GetPositionAbsent(positions, symbol) == None

\* self.current_position.get(symbol).cloned(): Option<Option<Trade>>
GetPosition(positions, symbol) ==
    IF symbol \in DOMAIN positions THEN Some(positions[symbol]) ELSE None

\* mutant: the value is stored under every key of the map
InsertPositionAll(positions, symbol, value) ==
    [s \in DOMAIN positions \cup {symbol} |-> value]

\* self.current_position.insert(symbol, value)
InsertPosition(positions, symbol, value) ==
    [s \in DOMAIN positions \cup {symbol} |-> IF s = symbol THEN value ELSE positions[s]]

\* the Trade literal built when a position is opened
OpenTrade(market_data, position_type, quantity, mode) ==
    [entry_time |-> market_data.timestamp, exit_time |-> None,
     entry_price |-> market_data.price, exit_price |-> None,
     position_type |-> position_type, quantity |-> quantity,
     pnl |-> None, strategy_name |-> mode]

\* mutant: the commission is recomputed from the value of the position at the exit price
CloseTradeLiveFee(trade, market_data, commission) ==
    LET entry_value == RMul(trade.entry_price, trade.quantity)
        exit_value  == RMul(market_data.price, trade.quantity)
        live_fee    == RMul(commission, RDiv(exit_value, entry_value))
        pnl == IF trade.position_type = "Long"
               THEN RSub(RSub(exit_value, entry_value), live_fee)
               ELSE RSub(RSub(entry_value, exit_value), live_fee)
    IN  [trade EXCEPT !.exit_time = Some(market_data.timestamp),
                      !.exit_price = Some(market_data.price),
                      !.pnl = Some(pnl)]

\* closed_trade: the clone of the open trade with exit and pnl filled in
CloseTrade(trade, market_data, commission) ==
    LET entry_value == RMul(trade.entry_price, trade.quantity)
        exit_value  == RMul(market_data.price, trade.quantity)
        pnl == IF trade.position_type = "Long"
               THEN RSub(RSub(exit_value, entry_value), commission)
               ELSE RSub(RSub(entry_value, exit_value), commission)
    IN  [trade EXCEPT !.exit_time = Some(market_data.timestamp),
                      !.exit_price = Some(market_data.price),
                      !.pnl = Some(pnl)]

\* mutant: the quantity is the position size, not divided by the price
OpenArmUndivided(self, market_data, position_type) ==
    [trades |-> self.trades,
     current_position |->
         InsertPosition(self.current_position, market_data.symbol,
             Some(OpenTrade(market_data, position_type, self.position_size,
                            self.strategy_mode)))]

\* mutant: the trade is pushed to the history when it is opened
OpenArmRecorded(self, market_data, position_type) ==
    LET trade == OpenTrade(market_data, position_type,
                           RDiv(self.position_size, market_data.price), self.strategy_mode)
    IN  [trades |-> Append(self.trades, trade),
         current_position |->
             InsertPosition(self.current_position, market_data.symbol, Some(trade))]

\* the arms (Buy, None) and (Sell, None): insert a new open position
OpenArm(self, market_data, position_type) ==
    LET trade_quantity == RDiv(self.position_size, market_data.price)
    IN  [trades |-> self.trades,
         current_position |->
             InsertPosition(self.current_position, market_data.symbol,
                 Some(OpenTrade(market_data, position_type, trade_quantity,
                                self.strategy_mode)))]

\* mutant: the position is closed and no opposite position is opened
ReverseArmCloseOnly(self, trade, market_data, position_type) ==
    [trades |-> Append(self.trades,
                       CloseTrade(trade, market_data,
                           CalculateCommission(self.commission_rate, self.position_size))),
     current_position |-> InsertPosition(self.current_position, market_data.symbol, None)]

\* mutant: the position opened after the close has the direction of the closed one
ReverseArmSameSide(self, trade, market_data, position_type) ==
    LET trade_quantity == RDiv(self.position_size, market_data.price)
        commission     == CalculateCommission(self.commission_rate, self.position_size)
    IN  [trades |-> Append(self.trades, CloseTrade(trade, market_data, commission)),
         current_position |->
             InsertPosition(self.current_position, market_data.symbol,
                 Some(OpenTrade(market_data, trade.position_type, trade_quantity,
                                self.strategy_mode)))]

\* mutant: the closed trade is pushed twice
ReverseArmPushesTwice(self, trade, market_data, position_type) ==
    LET trade_quantity == RDiv(self.position_size, market_data.price)
        commission     == CalculateCommission(self.commission_rate, self.position_size)
        closed_trade   == CloseTrade(trade, market_data, commission)
    IN  [trades |-> Append(Append(self.trades, closed_trade), closed_trade),
         current_position |->
             InsertPosition(self.current_position, market_data.symbol,
                 Some(OpenTrade(market_data, position_type, trade_quantity,
                                self.strategy_mode)))]

\* the arms (Sell, Long position) and (Buy, Short position): push the closed
\* trade, then insert the new open position of type position_type
ReverseArm(self, trade, market_data, position_type) ==
    LET trade_quantity == RDiv(self.position_size, market_data.price)
        commission     == CalculateCommission(self.commission_rate, self.position_size)
    IN  [trades |-> Append(self.trades, CloseTrade(trade, market_data, commission)),
         current_position |->
             InsertPosition(self.current_position, market_data.symbol,
                 Some(OpenTrade(market_data, position_type, trade_quantity,
                                self.strategy_mode)))]

\* mutant: a Buy or a Sell in the direction already held opens a position again
ExecuteTradeAgain(self, market_data, signal) ==
    LET held == PositionOf(self.current_position, market_data.symbol)
        holds(ptype) == IsSome(held) /\ Unwrap(held).position_type = ptype
    IN  IF signal = "Buy" /\ ~holds("Short")
        THEN OpenArm(self, market_data, "Long")
        ELSE IF signal = "Sell" /\ ~holds("Long")
        THEN OpenArm(self, market_data, "Short")
        ELSE IF signal = "Sell"
        THEN ReverseArm(self, Unwrap(held), market_data, "Short")
        ELSE IF signal = "Buy"
        THEN ReverseArm(self, Unwrap(held), market_data, "Long")
        ELSE [trades |-> self.trades, current_position |-> self.current_position]

\* mutant: a Hold while a position is open closes it and leaves the symbol Flat
ExecuteTradeHoldCloses(self, market_data, signal) ==
    LET held == GetPosition(self.current_position, market_data.symbol)
        open == IsSome(held) /\ IsSome(Unwrap(held))
    IN  IF signal = "Buy" /\ held = None
        THEN OpenArm(self, market_data, "Long")
        ELSE IF signal = "Sell" /\ held = None
        THEN OpenArm(self, market_data, "Short")
        ELSE IF signal = "Sell" /\ open /\ Unwrap(Unwrap(held)).position_type = "Long"
        THEN ReverseArm(self, Unwrap(Unwrap(held)), market_data, "Short")
        ELSE IF signal = "Buy" /\ open /\ Unwrap(Unwrap(held)).position_type = "Short"
        THEN ReverseArm(self, Unwrap(Unwrap(held)), market_data, "Long")
        ELSE IF signal = "Hold" /\ open
        THEN [trades |-> Append(self.trades,
                                CloseTrade(Unwrap(Unwrap(held)), market_data,
                                    CalculateCommission(self.commission_rate,
                                                        self.position_size))),
              current_position |->
                  InsertPosition(self.current_position, market_data.symbol, None)]
        ELSE [trades |-> self.trades, current_position |-> self.current_position]

\* execute_trade(&mut self, market_data, signal): the new trades and current_position
ExecuteTrade(self, market_data, signal) ==
    LET held == GetPosition(self.current_position, market_data.symbol)
    IN  IF signal = "Buy" /\ held = None
        THEN OpenArm(self, market_data, "Long")
        ELSE IF signal = "Sell" /\ held = None
        THEN OpenArm(self, market_data, "Short")
        ELSE IF signal = "Sell" /\ IsSome(held) /\ IsSome(Unwrap(held))
                /\ Unwrap(Unwrap(held)).position_type = "Long"
        THEN ReverseArm(self, Unwrap(Unwrap(held)), market_data, "Short")
        ELSE IF signal = "Buy" /\ IsSome(held) /\ IsSome(Unwrap(held))
                /\ Unwrap(Unwrap(held)).position_type = "Short"
        THEN ReverseArm(self, Unwrap(Unwrap(held)), market_data, "Long")
        ELSE [trades |-> self.trades, current_position |-> self.current_position]

(***************************************************************************)
(* Equity and results (calculate_current_equity, calculate_results).       *)
(***************************************************************************)
\* trading days per year and annual risk-free rate of the Sharpe ratio
TradingDays == 252

RiskFreeRate == RNorm(2, 100)

\* unrealised pnl of one map entry at current_price
UnrealizedPnl(trade_opt, current_price) ==
    IF trade_opt = None THEN R(0)
    ELSE LET trade == Unwrap(trade_opt)
         IN  IF trade.position_type = "Long"
             THEN RMul(RSub(current_price, trade.entry_price), trade.quantity)
             ELSE RMul(RSub(trade.entry_price, current_price), trade.quantity)

RECURSIVE SumUnrealized(_, _, _)
SumUnrealized(positions, keys, current_price) ==
    IF keys = {} THEN R(0)
    ELSE LET s == CHOOSE x \in keys : TRUE
         IN  RAdd(UnrealizedPnl(positions[s], current_price),
                  SumUnrealized(positions, keys \ {s}, current_price))

\* calculate_current_equity(&self, current_price)
CalculateCurrentEquity(capital, positions, current_price) ==
    RAdd(capital, SumUnrealized(positions, DOMAIN positions, current_price))

\* mutant: losing trades are not counted
RECURSIVE TradeStatsWinsOnly(_, _)
TradeStatsWinsOnly(ts, n) ==
    IF n = 0
    THEN [winning_trades |-> 0, losing_trades |-> 0, total_pnl |-> R(0),
          win_amount |-> R(0), loss_amount |-> R(0),
          largest_win |-> R(0), largest_loss |-> R(0)]
    ELSE LET acc == TradeStatsWinsOnly(ts, n - 1)
         IN  IF ts[n].pnl = None THEN acc
             ELSE LET pnl == Unwrap(ts[n].pnl)
                  IN  IF RGt(pnl, R(0))
                      THEN [acc EXCEPT !.total_pnl = RAdd(@, pnl),
                                       !.winning_trades = @ + 1,
                                       !.win_amount = RAdd(@, pnl),
                                       !.largest_win = RMax(@, pnl)]
                      ELSE [acc EXCEPT !.total_pnl = RAdd(@, pnl),
                                       !.loss_amount = RAdd(@, pnl),
                                       !.largest_loss = RMin(@, pnl)]

\* mutant: a trade with pnl 0 is counted as winning
RECURSIVE TradeStatsZeroWins(_, _)
TradeStatsZeroWins(ts, n) ==
    IF n = 0
    THEN [winning_trades |-> 0, losing_trades |-> 0, total_pnl |-> R(0),
          win_amount |-> R(0), loss_amount |-> R(0),
          largest_win |-> R(0), largest_loss |-> R(0)]
    ELSE LET acc == TradeStatsZeroWins(ts, n - 1)
         IN  IF ts[n].pnl = None THEN acc
             ELSE LET pnl == Unwrap(ts[n].pnl)
                  IN  IF ~RLt(pnl, R(0))
                      THEN [acc EXCEPT !.total_pnl = RAdd(@, pnl),
                                       !.winning_trades = @ + 1,
                                       !.win_amount = RAdd(@, pnl),
                                       !.largest_win = RMax(@, pnl)]
                      ELSE [acc EXCEPT !.total_pnl = RAdd(@, pnl),
                                       !.losing_trades = @ + 1,
                                       !.loss_amount = RAdd(@, pnl),
                                       !.largest_loss = RMin(@, pnl)]

\* mutant: total_pnl adds up the winning trades only
RECURSIVE TradeStatsWinsPnl(_, _)
TradeStatsWinsPnl(ts, n) ==
    IF n = 0
    THEN [winning_trades |-> 0, losing_trades |-> 0, total_pnl |-> R(0),
          win_amount |-> R(0), loss_amount |-> R(0),
          largest_win |-> R(0), largest_loss |-> R(0)]
    ELSE LET acc == TradeStatsWinsPnl(ts, n - 1)
         IN  IF ts[n].pnl = None THEN acc
             ELSE LET pnl == Unwrap(ts[n].pnl)
                  IN  IF RGt(pnl, R(0))
                      THEN [acc EXCEPT !.total_pnl = RAdd(@, pnl),
                                       !.winning_trades = @ + 1,
                                       !.win_amount = RAdd(@, pnl),
                                       !.largest_win = RMax(@, pnl)]
                      ELSE [acc EXCEPT !.losing_trades = @ + 1,
                                       !.loss_amount = RAdd(@, pnl),
                                       !.largest_loss = RMin(@, pnl)]

\* the statistics loop over self.trades: the accumulators after the first n trades
RECURSIVE TradeStats(_, _)
TradeStats(ts, n) ==
    IF n = 0
    THEN [winning_trades |-> 0, losing_trades |-> 0, total_pnl |-> R(0),
          win_amount |-> R(0), loss_amount |-> R(0),
          largest_win |-> R(0), largest_loss |-> R(0)]
    ELSE LET acc == TradeStats(ts, n - 1)
         IN  IF ts[n].pnl = None THEN acc
             ELSE LET pnl == Unwrap(ts[n].pnl)
                  IN  IF RGt(pnl, R(0))
                      THEN [acc EXCEPT !.total_pnl = RAdd(@, pnl),
                                       !.winning_trades = @ + 1,
                                       !.win_amount = RAdd(@, pnl),
                                       !.largest_win = RMax(@, pnl)]
                      ELSE [acc EXCEPT !.total_pnl = RAdd(@, pnl),
                                       !.losing_trades = @ + 1,
                                       !.loss_amount = RAdd(@, pnl),
                                       !.largest_loss = RMin(@, pnl)]

\* mutant: the peak is never raised, every drawdown is taken against the initial capital
RECURSIVE DrawdownScanStatic(_, _, _)
DrawdownScanStatic(curve, n, capital) ==
    IF n = 0 THEN [peak |-> capital, max_drawdown |-> R(0)]
    ELSE LET acc  == DrawdownScanStatic(curve, n - 1, capital)
             drawdown == RDiv(RSub(capital, curve[n].equity), capital)
         IN  [peak |-> capital, max_drawdown |-> RMax(acc.max_drawdown, drawdown)]

\* the drawdown loop over self.equity_curve: peak and max_drawdown after n points
RECURSIVE DrawdownScan(_, _, _)
DrawdownScan(curve, n, capital) ==
    IF n = 0 THEN [peak |-> capital, max_drawdown |-> R(0)]
    ELSE LET acc  == DrawdownScan(curve, n - 1, capital)
             peak == IF RGt(curve[n].equity, acc.peak) THEN curve[n].equity ELSE acc.peak
             drawdown == RDiv(RSub(peak, curve[n].equity), peak)
         IN  [peak |-> peak, max_drawdown |-> RMax(acc.max_drawdown, drawdown)]

\* returns: one per window of two consecutive equity points
Returns(curve) ==
    IF Len(curve) >= 2
    THEN [k \in 1..(Len(curve) - 1) |->
            RDiv(RSub(curve[k + 1].equity, curve[k].equity), curve[k].equity)]
    ELSE <<>>

RECURSIVE RSum(_, _)
RSum(xs, n) == IF n = 0 THEN R(0) ELSE RAdd(RSum(xs, n - 1), xs[n])

\* a value sign * sqrt(square): the Sharpe ratio is a quotient by a square root,
\* kept exactly as its sign and its square (NaN: square NaN, sign 0)
SignedRoot(sign, square) ==
    IF IsNaN(square) \/ square = R(0) THEN [sign |-> 0, square |-> square]
    ELSE [sign |-> sign, square |-> square]

\* mutant: the quotient is taken whatever the standard deviation
SharpeRatioUnguarded(returns) ==
    IF Len(returns) = 0 THEN SignedRoot(0, R(0))
    ELSE LET n          == R(Len(returns))
             avg_return == RDiv(RSum(returns, Len(returns)), n)
             sq     == [k \in 1..Len(returns) |->
                          RMul(RSub(returns[k], avg_return), RSub(returns[k], avg_return))]
             variance == RDiv(RSum(sq, Len(sq)), n)
             excess == RSub(RMul(avg_return, R(TradingDays)), RiskFreeRate)
         IN  SignedRoot(Sgn(excess[1]),
                        RDiv(RMul(excess, excess), RMul(variance, R(TradingDays))))

SharpeRatio(returns) ==
    IF Len(returns) = 0 THEN SignedRoot(0, R(0))
    ELSE LET n          == R(Len(returns))
             avg_return == RDiv(RSum(returns, Len(returns)), n)
             sq     == [k \in 1..Len(returns) |->
                          RMul(RSub(returns[k], avg_return), RSub(returns[k], avg_return))]
             variance == RDiv(RSum(sq, Len(sq)), n)
             annualized_return == RMul(avg_return, R(TradingDays))
             \* annualized_std_dev = sqrt(variance) * sqrt(252), positive iff variance is
             annualized_var == RMul(variance, R(TradingDays))
             excess == RSub(annualized_return, RiskFreeRate)
         IN  IF RGt(variance, R(0))
             THEN SignedRoot(Sgn(excess[1]), RDiv(RMul(excess, excess), annualized_var))
             ELSE SignedRoot(0, R(0))

\* mutant: win_rate is the ratio of winning to losing trades
CalculateResultsWinLoss(capital, ts, curve) ==
    LET st == TradeStats(ts, Len(ts))
    IN  [total_trades   |-> Len(ts),
         winning_trades |-> st.winning_trades,
         losing_trades  |-> st.losing_trades,
         total_pnl      |-> st.total_pnl,
         win_rate       |-> IF Len(ts) > 0
                            THEN RDiv(R(st.winning_trades), R(st.losing_trades)) ELSE R(0),
         average_win    |-> IF st.winning_trades > 0
                            THEN RDiv(st.win_amount, R(st.winning_trades)) ELSE R(0),
         average_loss   |-> IF st.losing_trades > 0
                            THEN RDiv(st.loss_amount, R(st.losing_trades)) ELSE R(0),
         largest_win    |-> st.largest_win,
         largest_loss   |-> st.largest_loss,
         max_drawdown   |-> DrawdownScan(curve, Len(curve), capital).max_drawdown,
         sharpe_ratio   |-> SharpeRatio(Returns(curve)),
         trades         |-> ts]

\* calculate_results(&self)
CalculateResults(capital, ts, curve) ==
    LET st == TradeStats(ts, Len(ts))
        total_trades == Len(ts)
    IN  [total_trades   |-> total_trades,
         winning_trades |-> st.winning_trades,
         losing_trades  |-> st.losing_trades,
         total_pnl      |-> st.total_pnl,
         win_rate       |-> IF total_trades > 0
                            THEN RDiv(R(st.winning_trades), R(total_trades)) ELSE R(0),
         average_win    |-> IF st.winning_trades > 0
                            THEN RDiv(st.win_amount, R(st.winning_trades)) ELSE R(0),
         average_loss   |-> IF st.losing_trades > 0
                            THEN RDiv(st.loss_amount, R(st.losing_trades)) ELSE R(0),
         largest_win    |-> st.largest_win,
         largest_loss   |-> st.largest_loss,
         max_drawdown   |-> DrawdownScan(curve, Len(curve), capital).max_drawdown,
         sharpe_ratio   |-> SharpeRatio(Returns(curve)),
         trades         |-> ts]

(***************************************************************************)
(* Operations.                                                             *)
(***************************************************************************)
\* the fields of self that the helpers read
Self ==
    [initial_capital |-> initial_capital, position_size |-> position_size,
     commission_rate |-> commission_rate, strategy_mode |-> strategy_mode,
     trades |-> trades, current_position |-> current_position,
     equity_curve |-> equity_curve]

\* the seed EquityPoint pushed by new and by run_backtest; now is Utc::now()
SeedPoint(now, capital) == [timestamp |-> now, equity |-> capital, drawdown |-> R(0)]

\* Utc::now(): the wall clock does not run backwards
UtcNow == clock..MaxClock

\* Backtester::new(initial_capital, position_size, commission_rate)
New(config, now) ==
    /\ initial_capital = config.initial_capital
    /\ position_size = config.position_size
    /\ commission_rate = config.commission_rate
    /\ strategy_mode = "Combined"
    /\ trades = <<>>
    /\ current_position = <<>>
    /\ equity_curve = <<SeedPoint(now, config.initial_capital)>>
    /\ clock = now

\* the capacity main gives its DataProcessor
MainHistorySize == 500

\* DataProcessor::new(max_history_size)
DataProcessorNew(capacity) ==
    /\ price_history = <<>>
    /\ max_history_size = capacity
    /\ processed = None
    /\ arrived = <<>>
    /\ processed_data = None

\* the engine after Backtester::new, for a configuration drawn from configs,
\* built at a time drawn from times
BacktesterConstructed(configs, times) ==
    /\ \E config \in configs, now \in times : New(config, now)
    /\ pc = "idle"
    /\ data = <<>>
    /\ i = 0
    /\ result = None
    /\ reused = FALSE
    /\ live = [s \in Instruments |-> 0]
    /\ kept = None

\* the state after construction, for a configuration drawn from configs
Constructed(configs) ==
    /\ BacktesterConstructed(configs, 0..MaxClock)
    /\ DataProcessorNew(MainHistorySize)

Init == Constructed(ValidConfigs)

InitZeroFee == Constructed(ZeroFeeConfigs)

InitAnyConfig == Constructed(Configs)

\* set_strategy_mode(&mut self, mode)
SetStrategyMode(mode) ==
    /\ pc # "loop"
    /\ strategy_mode' = mode
    /\ UNCHANGED <<initial_capital, position_size, commission_rate, trades,
                   current_position, equity_curve, pc, data, i, result, clock,
                   reused, live, kept>>
    /\ UNCHANGED processor_vars

\* mutants: one of the three collections is not cleared at the entry of run_backtest
ClearTradesKept(ts) == ts

ClearPositionsKept(positions) == positions

ClearCurveKept(curve) == curve

\* self.trades.clear(), self.current_position.clear(), self.equity_curve.clear()
ClearTrades(ts) == <<>>

ClearPositions(positions) == <<>>

ClearCurve(curve) == <<>>

\* run_backtest, entry: the reset and the seed point.  The slice is read front
\* to back and element i is not read before iteration i (rsi_signals[i] and
\* bollinger_signals[i] are the producers' classifications of element i), so
\* the model draws each element when its iteration reads it.
RunBacktestBegin ==
    /\ pc \in {"idle", "done"}
    /\ \E now \in UtcNow :
          /\ clock' = now
          /\ equity_curve' = Append(ClearCurve(equity_curve), SeedPoint(now, initial_capital))
    /\ trades' = ClearTrades(trades)
    /\ current_position' = ClearPositions(current_position)
    /\ data' = <<>>
    /\ i' = 0
    /\ pc' = "loop"
    /\ result' = None
    /\ reused' = (pc = "done")
    /\ live' = [s \in Instruments |-> 0]
    /\ UNCHANGED <<initial_capital, position_size, commission_rate, strategy_mode, kept>>
    /\ UNCHANGED processor_vars

\* mutant: the stored drawdown is never negative
TickPointClamped(capital, positions, market_data) ==
    LET current_equity == CalculateCurrentEquity(capital, positions, market_data.price)
    IN  [timestamp |-> market_data.timestamp,
         equity    |-> current_equity,
         drawdown  |-> RMax(R(0), RDiv(RSub(capital, current_equity), capital))]

\* the EquityPoint pushed at the end of a loop iteration
TickPoint(capital, positions, market_data) ==
    LET current_equity == CalculateCurrentEquity(capital, positions, market_data.price)
    IN  [timestamp |-> market_data.timestamp,
         equity    |-> current_equity,
         drawdown  |-> RDiv(RSub(capital, current_equity), capital)]

\* mutant: the equity point is computed before the decision is applied
LoopBodyEquityFirst(self, market_data, rsi_signal, bollinger_signal) ==
    LET decision == TradeDecision(self.strategy_mode, rsi_signal, bollinger_signal)
        after == IF IsSome(decision)
                 THEN ExecuteTrade(self, market_data, Unwrap(decision))
                 ELSE [trades |-> self.trades, current_position |-> self.current_position]
    IN  [trades |-> after.trades,
         current_position |-> after.current_position,
         equity_curve |-> Append(self.equity_curve,
                                 TickPoint(self.initial_capital, self.current_position,
                                           market_data))]

\* one iteration of the loop of run_backtest: trades, current_position and
\* equity_curve after it
LoopBody(self, market_data, rsi_signal, bollinger_signal) ==
    LET decision == TradeDecision(self.strategy_mode, rsi_signal, bollinger_signal)
        after == IF IsSome(decision)
                 THEN ExecuteTrade(self, market_data, Unwrap(decision))
                 ELSE [trades |-> self.trades, current_position |-> self.current_position]
    IN  [trades |-> after.trades,
         current_position |-> after.current_position,
         equity_curve |-> Append(self.equity_curve,
                                 TickPoint(self.initial_capital, after.current_position,
                                           market_data))]

\* run_backtest, loop: iteration i, on an element drawn from ticks
RunBacktestIteration(ticks) ==
    /\ pc = "loop"
    /\ i < MaxTicks
    /\ \E tick \in ticks :
          LET market_data == MarketData(tick.symbol, i + 1, tick.price,
                                        tick.rsi_signal, tick.bollinger_signal)
              slice == Append(data, market_data)
              after == LoopBody(Self, market_data, RsiAnalyzeBatch(slice)[i + 1],
                                BollingerAnalyze(market_data))
              symbol == market_data.symbol
              before == PositionOf(current_position, symbol)
              held == PositionOf(after.current_position, symbol)
              \* a position was opened: the entry of the symbol is a new open trade
              opens == IF IsSome(held) /\ held # before THEN 1 ELSE 0
              \* positions were closed: closed trades were pushed
              closes == Len(after.trades) - Len(trades)
          IN  /\ data' = slice
              /\ trades' = after.trades
              /\ current_position' = after.current_position
              /\ equity_curve' = after.equity_curve
              /\ live' = [live EXCEPT ![symbol] = @ + opens - closes]
    /\ i' = i + 1
    /\ UNCHANGED <<initial_capital, position_size, commission_rate, strategy_mode,
                   pc, result, clock, reused, kept>>
    /\ UNCHANGED processor_vars

\* run_backtest, exit (i = data.len()): self.calculate_results()
ReturnResults ==
    /\ pc = "loop"
    /\ i = Len(data)
    /\ result' = Some(CalculateResults(initial_capital, trades, equity_curve))
    /\ pc' = "done"
    /\ UNCHANGED <<initial_capital, position_size, commission_rate, strategy_mode,
                   trades, current_position, equity_curve, data, i, clock, reused,
                   live>>
    /\ UNCHANGED processor_vars

RunBacktestReturn == ReturnResults /\ UNCHANGED kept

\* the return to a caller that keeps the BacktestResult (main: rsi_results,
\* bb_results), with the mode and input of the call and the equity curve it left
RunBacktestReturnKept ==
    /\ ReturnResults
    /\ kept' = Some([strategy_mode |-> strategy_mode, data |-> data,
                     result |-> Unwrap(result'), equity_curve |-> equity_curve])

Next ==
    \/ \E mode \in StrategyMode : SetStrategyMode(mode)
    \/ RunBacktestBegin
    \/ RunBacktestIteration(LedgerTicks)
    \/ RunBacktestReturn

Spec == Init /\ [][Next]_vars

\* The engine with a caller that keeps results to compare runs (main keeps
\* rsi_results and bb_results across the later calls), on a smaller input alphabet.
ReuseTicks ==
    { [symbol |-> "SOL", price |-> R(100), rsi_signal |-> "Buy",  bollinger_signal |-> "Hold"],
      [symbol |-> "SOL", price |-> R(200), rsi_signal |-> "Sell", bollinger_signal |-> "Hold"] }

NextReuse ==
    \/ \E mode \in StrategyMode : SetStrategyMode(mode)
    \/ RunBacktestBegin
    \/ RunBacktestIteration(ReuseTicks)
    \/ RunBacktestReturn
    \/ RunBacktestReturnKept

SpecReuse == Init /\ [][NextReuse]_vars

\* The engine constructed from any configuration new accepts.
SpecAnyConfig == InitAnyConfig /\ [][Next]_vars

\* The engine constructed with commission_rate 0.
SpecZeroFee == InitZeroFee /\ [][Next]_vars

\* The engine on inputs that carry every pair of producer outputs.
NextSignals ==
    \/ \E mode \in StrategyMode : SetStrategyMode(mode)
    \/ RunBacktestBegin
    \/ RunBacktestIteration(SignalTicks)
    \/ RunBacktestReturn

SpecSignals == Init /\ [][NextSignals]_vars

\* The engine on inputs of three prices, each with one decision that both
\* producers give: a rising series buys at 100, holds at 200 and sells at 300.
RisingTicks ==
    { [symbol |-> "SOL", price |-> R(100), rsi_signal |-> "Buy",  bollinger_signal |-> "Buy"],
      [symbol |-> "SOL", price |-> R(200), rsi_signal |-> "Hold", bollinger_signal |-> "Hold"],
      [symbol |-> "SOL", price |-> R(300), rsi_signal |-> "Sell", bollinger_signal |-> "Sell"] }

NextRising ==
    \/ \E mode \in StrategyMode : SetStrategyMode(mode)
    \/ RunBacktestBegin
    \/ RunBacktestIteration(RisingTicks)
    \/ RunBacktestReturn

SpecRising == Init /\ [][NextRising]_vars

\* The engine with a caller that runs one input under several modes and keeps
\* a result to compare the later ones with (test_strategy_mode_switching, main),
\* on four pairs of producer outputs at one price: once a result is kept, the
\* calls that follow are given the input of the kept run.
ModeSignals ==
    { <<"Buy", "Buy">>, <<"Buy", "Sell">>, <<"Hold", "Sell">>, <<"Sell", "Hold">> }

ModeTicks == TickChoices(Symbols, {R(100)}, ModeSignals)

ReplayTicks ==
    IF kept = None THEN ModeTicks
    ELSE IF i < Len(Unwrap(kept).data) THEN {Unwrap(kept).data[i + 1]}
    ELSE {}

NextModes ==
    \/ \E mode \in StrategyMode : SetStrategyMode(mode)
    \/ RunBacktestBegin
    \/ RunBacktestIteration(ReplayTicks)
    \/ RunBacktestReturn
    \/ RunBacktestReturnKept

SpecModes == Init /\ [][NextModes]_vars

\* The engine on inputs that mix two instruments, at one price, with decisions
\* on which both producers agree.
PortfolioSignals == { <<"Buy", "Buy">>, <<"Sell", "Sell">>, <<"Hold", "Hold">> }

PortfolioTicks == TickChoices(Instruments, {R(100)}, PortfolioSignals)

NextPortfolio ==
    \/ \E mode \in StrategyMode : SetStrategyMode(mode)
    \/ RunBacktestBegin
    \/ RunBacktestIteration(PortfolioTicks)
    \/ RunBacktestReturn

SpecPortfolio == Init /\ [][NextPortfolio]_vars

\* run_backtest as one step on an engine just built by new(config) and set to
\* mode: the fields after the loop over the whole slice d, and the result
RECURSIVE LoopOver(_, _, _)
LoopOver(self, d, n) ==
    IF n = 0 THEN self
    ELSE LET prev  == LoopOver(self, d, n - 1)
             after == LoopBody(prev, d[n], RsiAnalyzeBatch(d)[n], BollingerAnalyze(d[n]))
         IN  [prev EXCEPT !.trades = after.trades,
                          !.current_position = after.current_position,
                          !.equity_curve = after.equity_curve]

RunBacktestOnNew(config, mode, d, built, now) ==
    LET entry == [initial_capital |-> config.initial_capital,
                  position_size |-> config.position_size,
                  commission_rate |-> config.commission_rate,
                  strategy_mode |-> mode,
                  trades |-> ClearTrades(<<>>),
                  current_position |-> ClearPositions(<<>>),
                  equity_curve |->
                      Append(ClearCurve(<<SeedPoint(built, config.initial_capital)>>),
                             SeedPoint(now, config.initial_capital))]
        exit == LoopOver(entry, d, Len(d))
    IN  CalculateResults(config.initial_capital, exit.trades, exit.equity_curve)

(***************************************************************************)
(* The indicator processor (src/src/data/processing.rs).  A price is the   *)
(* only field of MarketData that DataProcessor reads.                      *)
(***************************************************************************)
\* the periods process_data asks for
MaPeriodShort == 5

MaPeriodLong == 20

RsiPeriod == 14

\* the number of recent prices calculate_volatility and detect_outlier use
VolatilityWindow == 20

\* the history length below which detect_outlier answers false
OutlierMinHistory == 4

\* the z-score above which detect_outlier answers true
OutlierZScore == 4

\* self.price_history.iter().rev().take(n): the newest n prices (all of them
\* when fewer are held), newest first
RevTake(history, n) ==
    LET m == IF Len(history) < n THEN Len(history) ELSE n
    IN  [k \in 1..m |-> history[Len(history) - k + 1]]

\* mutant: on overflow the price just pushed is dropped, not the oldest
PushPriceKeepsOldest(history, capacity, price) ==
    IF Len(history) + 1 > capacity THEN history ELSE Append(history, price)

\* push_back(price), then pop_front() when the length exceeds max_history_size
PushPrice(history, capacity, price) ==
    LET pushed == Append(history, price)
    IN  IF Len(pushed) > capacity THEN Tail(pushed) ELSE pushed

\* mutant: the average is taken over the oldest prices held
CalculateMovingAverageOldest(history, period) ==
    IF Len(history) < period THEN None
    ELSE Some(RDiv(RSum(SubSeq(history, 1, period), period), R(period)))

\* calculate_moving_average(&self, period)
CalculateMovingAverage(history, period) ==
    IF Len(history) < period THEN None
    ELSE LET taken == RevTake(history, period)
         IN  Some(RDiv(RSum(taken, Len(taken)), R(period)))

\* the loop for i in 1..=period of calculate_rsi: entry i is the change between
\* the i-th newest price and the one before it
PriceChanges(history, period) ==
    [k \in 1..period |->
        RSub(history[Len(history) - k + 1], history[Len(history) - k])]

Gains(changes) ==
    [k \in 1..Len(changes) |-> IF RGt(changes[k], R(0)) THEN changes[k] ELSE R(0)]

Losses(changes) ==
    [k \in 1..Len(changes) |-> IF RGt(changes[k], R(0)) THEN R(0) ELSE RNeg(changes[k])]

\* avg after the smoothing loop has folded in xs[2..n], starting from avg = xs[1]
RECURSIVE Ema(_, _, _)
Ema(xs, alpha, n) ==
    IF n = 1 THEN xs[1]
    ELSE RAdd(RMul(xs[n], alpha), RMul(Ema(xs, alpha, n - 1), RSub(R(1), alpha)))

\* mutant: the quotient avg_gain / avg_loss is taken whatever avg_loss is
CalculateRsiUnguarded(history, period) ==
    IF Len(history) < period + 1 THEN None
    ELSE LET changes  == PriceChanges(history, period)
             alpha    == RDiv(R(2), RAdd(R(period), R(1)))
             avg_gain == Ema(Gains(changes), alpha, period)
             avg_loss == Ema(Losses(changes), alpha, period)
             rs       == RDiv(avg_gain, avg_loss)
         IN  Some(RSub(R(100), RDiv(R(100), RAdd(R(1), rs))))

\* calculate_rsi(&self, period)
CalculateRsi(history, period) ==
    IF Len(history) < period + 1 THEN None
    ELSE LET changes  == PriceChanges(history, period)
             alpha    == RDiv(R(2), RAdd(R(period), R(1)))
             avg_gain == Ema(Gains(changes), alpha, period)
             avg_loss == Ema(Losses(changes), alpha, period)
         IN  IF avg_loss = R(0) THEN Some(R(100))
             ELSE LET rs == RDiv(avg_gain, avg_loss)
                  IN  Some(RSub(R(100), RDiv(R(100), RAdd(R(1), rs))))

\* the mean of a sequence of prices
Mean(prices) == RDiv(RSum(prices, Len(prices)), R(Len(prices)))

\* the variance calculate_volatility takes the square root of
SampleVariance(prices) ==
    LET mean == Mean(prices)
        sq   == [k \in 1..Len(prices) |->
                    RMul(RSub(prices[k], mean), RSub(prices[k], mean))]
    IN  RDiv(RSum(sq, Len(sq)), R(Len(prices) - 1))

\* calculate_volatility(&self): the value is variance.sqrt(), kept as its square
CalculateVolatility(history) ==
    IF Len(history) < VolatilityWindow THEN None
    ELSE Some([squared |-> SampleVariance(RevTake(history, VolatilityWindow))])

\* mutant: the price is measured against the mean and the spread of the prices
\* held before it, whenever at least OutlierMinHistory prices are held
DetectOutlierPrevious(history, price) ==
    IF Len(history) < OutlierMinHistory THEN FALSE
    ELSE LET recent == RevTake(SubSeq(history, 1, Len(history) - 1), VolatilityWindow)
             variance == SampleVariance(recent)
             distance == RSub(price, Mean(recent))
         IN  IF variance = R(0) THEN distance # R(0)
             ELSE RGt(RMul(distance, distance),
                      RMul(R(OutlierZScore * OutlierZScore), variance))

\* detect_outlier(&self, price): z_score > 4.0 with z_score = |price - mean| /
\* volatility; a zero volatility gives +inf (true) or, for a zero distance,
\* NaN (false)
DetectOutlier(history, price) ==
    IF Len(history) < OutlierMinHistory THEN FALSE
    ELSE LET mean == Mean(RevTake(history, VolatilityWindow))
             volatility == CalculateVolatility(history)
             distance == RSub(price, mean)
         IN  IF IsSome(volatility)
             THEN LET variance == Unwrap(volatility).squared
                  IN  IF variance = R(0) THEN distance # R(0)
                      ELSE RGt(RMul(distance, distance),
                               RMul(R(OutlierZScore * OutlierZScore), variance))
             ELSE FALSE

\* the ProcessedMarketData that process_data returns, from the history after the push
ProcessedMarketData(history, price) ==
    [raw_data          |-> [price |-> price],
     moving_average_5  |-> CalculateMovingAverage(history, MaPeriodShort),
     moving_average_20 |-> CalculateMovingAverage(history, MaPeriodLong),
     rsi_14            |-> CalculateRsi(history, RsiPeriod),
     volatility        |-> CalculateVolatility(history),
     is_outlier        |-> DetectOutlier(history, price)]

\* process_data(&mut self, market_data), on a price drawn from prices
ProcessData(prices) ==
    /\ \E price \in prices :
          LET history == PushPrice(price_history, max_history_size, price)
          IN  /\ price_history' = history
              /\ processed' = Some(ProcessedMarketData(history, price))
              /\ arrived' = Append(arrived, price)
    /\ UNCHANGED <<initial_capital, position_size, commission_rate, strategy_mode,
                   trades, current_position, equity_curve, pc, data, i, result,
                   clock, reused, live, kept, max_history_size, processed_data>>

\* mutant: every price of the vector is pushed before the first element is processed
RECURSIVE ProcessBatchLoopAhead(_, _, _, _)
ProcessBatchLoopAhead(history, capacity, market_data, n) ==
    IF n = 0 THEN [price_history |-> history, processed_data |-> <<>>]
    ELSE LET prev == ProcessBatchLoopAhead(history, capacity, market_data, n - 1)
             pushed == PushPrice(prev.price_history, capacity, market_data[n])
         IN  [price_history |-> pushed,
              processed_data |->
                  [k \in 1..n |-> ProcessedMarketData(pushed, market_data[k])]]

\* the loop of process_batch after n elements: the window, and the vector of the
\* values process_data returned (process_data returns Ok, so ? never leaves the loop)
RECURSIVE ProcessBatchLoop(_, _, _, _)
ProcessBatchLoop(history, capacity, market_data, n) ==
    IF n = 0 THEN [price_history |-> history, processed_data |-> <<>>]
    ELSE LET prev == ProcessBatchLoop(history, capacity, market_data, n - 1)
             pushed == PushPrice(prev.price_history, capacity, market_data[n])
         IN  [price_history |-> pushed,
              processed_data |->
                  Append(prev.processed_data, ProcessedMarketData(pushed, market_data[n]))]

\* process_batch(&mut self, market_data), on a vector of prices drawn from batches
ProcessBatch(batches) ==
    /\ \E market_data \in batches :
          LET after == ProcessBatchLoop(price_history, max_history_size, market_data,
                                        Len(market_data))
          IN  /\ price_history' = after.price_history
              /\ processed_data' = Some(after.processed_data)
              /\ processed' = IF market_data = <<>> THEN processed
                              ELSE Some(after.processed_data[Len(market_data)])
              /\ arrived' = arrived \o market_data
    /\ UNCHANGED <<initial_capital, position_size, commission_rate, strategy_mode,
                   trades, current_position, equity_curve, pc, data, i, result,
                   clock, reused, live, kept, max_history_size>>

\* The processor alone.  Small processors (max_history_size up to MaxCapacity)
\* take any prices of WindowPrices; a large one (the capacity of the unit
\* tests) takes up to MaxRamp positive prices that start at a price of
\* RampStarts and move by the same step of RampSteps from each to the next.
TestHistorySize == 100

WindowPrices == {R(10), R(11), R(13)}

RampStarts == {R(10), R(30)}

RampSteps == {R(-1), R(0), R(1)}

FreeInputs ==
    IF max_history_size <= MaxCapacity /\ Len(arrived) < MaxArrivals
    THEN WindowPrices ELSE {}

RampInputs ==
    IF max_history_size > MaxCapacity /\ Len(arrived) < MaxRamp
    THEN LET n == Len(arrived)
             next == IF n = 0 THEN RampStarts
                     ELSE IF n = 1 THEN {RAdd(arrived[1], step) : step \in RampSteps}
                     ELSE {RAdd(arrived[n], RSub(arrived[n], arrived[n - 1]))}
         IN  {price \in next : RGt(price, R(0))}
    ELSE {}

InitProcessor ==
    /\ BacktesterConstructed(ValidConfigs, {0})
    /\ \E capacity \in (0..MaxCapacity) \cup {TestHistorySize} : DataProcessorNew(capacity)

NextProcessor ==
    \/ ProcessData(FreeInputs)
    \/ ProcessData(RampInputs)

SpecProcessor == InitProcessor /\ [][NextProcessor]_vars

\* The processor of the unit tests (capacity TestHistorySize) on the prices of
\* test_outlier_detection, in any order and number up to MaxTestPrices, and the
\* processor of main (capacity MainHistorySize) on the constant-step series.
TestPrices == {R(100), R(101), R(99), RNorm(201, 2), RNorm(203, 2), R(150)}

TestInputs ==
    IF max_history_size = TestHistorySize /\ Len(arrived) < MaxTestPrices
    THEN TestPrices ELSE {}

MainInputs == IF max_history_size = MainHistorySize THEN RampInputs ELSE {}

InitOutlier ==
    /\ BacktesterConstructed(ValidConfigs, {0})
    /\ \E capacity \in {TestHistorySize, MainHistorySize} : DataProcessorNew(capacity)

NextOutlier ==
    \/ ProcessData(TestInputs)
    \/ ProcessData(MainInputs)

SpecOutlier == InitOutlier /\ [][NextOutlier]_vars

\* The processor driven through process_batch only: small processors on
\* vectors of WindowPrices, the processor of main on vectors that continue a
\* constant-step series; vectors have 0..MaxBatch elements.
RampAfter(seen) ==
    LET n == Len(seen)
        next == IF n = 0 THEN RampStarts
                ELSE IF n = 1 THEN {RAdd(seen[1], step) : step \in RampSteps}
                ELSE {RAdd(seen[n], RSub(seen[n], seen[n - 1]))}
    IN  {price \in next : RGt(price, R(0))}

RECURSIVE RampBatchesOf(_, _)
RampBatchesOf(seen, k) ==
    IF k = 0 THEN {<<>>}
    ELSE UNION { {<<price>> \o rest : rest \in RampBatchesOf(Append(seen, price), k - 1)} :
                 price \in RampAfter(seen) }

FreeBatches ==
    IF max_history_size <= MaxCapacity
    THEN UNION { [1..k -> WindowPrices] : k \in 0..MaxBatch }
    ELSE {}

RampBatches ==
    IF max_history_size = MainHistorySize
    THEN UNION { RampBatchesOf(arrived, k) : k \in 0..MaxBatch }
    ELSE {}

FreeBatchInputs == {batch \in FreeBatches : Len(arrived) + Len(batch) <= MaxArrivals}

RampBatchInputs == {batch \in RampBatches : Len(arrived) + Len(batch) <= MaxRamp}

InitBatch ==
    /\ BacktesterConstructed(ValidConfigs, {0})
    /\ \E capacity \in (0..MaxCapacity) \cup {MainHistorySize} : DataProcessorNew(capacity)

NextBatch ==
    \/ ProcessBatch(FreeBatchInputs)
    \/ ProcessBatch(RampBatchInputs)

SpecBatch == InitBatch /\ [][NextBatch]_vars

(***************************************************************************)
(* Properties of the position ledger.                                      *)
(***************************************************************************)
\* the step is one loop iteration of run_backtest
IsIteration == pc = "loop" /\ i' = i + 1

\* the element the iteration of this step reads, and the decision taken on it
StepTick == data'[i']

StepDecision ==
    TradeDecision(strategy_mode, StepTick.rsi_signal, StepTick.bollinger_signal)

\* the ledger state of the step's instrument before and after the step
StepOld == PositionOf(current_position, StepTick.symbol)

StepNew == PositionOf(current_position', StepTick.symbol)

Holds(position, ptype) == IsSome(position) /\ Unwrap(position).position_type = ptype

Opposite(ptype) == IF ptype = "Long" THEN "Short" ELSE "Long"

\* C1: in every reachable state, every instrument has at most one open
\* position: the positions opened for it in the run and not yet closed number
\* 0 or 1, and number 1 exactly when the ledger holds an open position for it.
C1_AtMostOneOpenPosition ==
    \A s \in Symbols :
        /\ live[s] \in {0, 1}
        /\ live[s] = 1 <=> IsSome(PositionOf(current_position, s))

\* a position is open after an earlier one was closed
C1_Witness ==
    \E s \in Symbols : live[s] = 1 /\ Len(trades) >= 1 /\ pc = "loop"

\* C2: when the ledger is Flat for the instrument, Buy opens a Long and Sell a
\* Short with entry price and time taken from the tick and quantity
\* position_size / price (1000 at price 100 gives 10); no closed trade is appended.
C2_OpenFromFlat ==
    [][(IsIteration /\ StepOld = None /\ StepDecision \in {Some("Buy"), Some("Sell")}) =>
          /\ IsSome(StepNew)
          /\ Unwrap(StepNew).position_type =
                (IF StepDecision = Some("Buy") THEN "Long" ELSE "Short")
          /\ Unwrap(StepNew).entry_price = StepTick.price
          /\ Unwrap(StepNew).entry_time = StepTick.timestamp
          /\ RMul(Unwrap(StepNew).quantity, StepTick.price) = position_size
          /\ (position_size = R(1000) /\ StepTick.price = R(100)
                => Unwrap(StepNew).quantity = R(10))
          /\ Unwrap(StepNew).exit_time = None
          /\ Unwrap(StepNew).exit_price = None
          /\ Unwrap(StepNew).pnl = None
          /\ trades' = trades
      ]_vars

\* a Long of quantity 10 opened from Flat at price 100 with position_size 1000
C2_Witness ==
    /\ pc = "loop" /\ i = 1 /\ trades = <<>>
    /\ position_size = R(1000)
    /\ data[1].price = R(100)
    /\ Holds(PositionOf(current_position, data[1].symbol), "Long")
    /\ Unwrap(PositionOf(current_position, data[1].symbol)).quantity = R(10)

\* C3: a reversing decision (Sell while Long, Buy while Short) appends in one
\* step exactly one closed trade for the old position, with exit price and
\* time from the tick, and leaves a new opposite position entered at that
\* tick's price and time; the ledger is not Flat after the step.
C3_ReversalClosesAndReopens ==
    [][(IsIteration /\ (\/ StepDecision = Some("Sell") /\ Holds(StepOld, "Long")
                        \/ StepDecision = Some("Buy") /\ Holds(StepOld, "Short"))) =>
          /\ Len(trades') = Len(trades) + 1
          /\ SubSeq(trades', 1, Len(trades)) = trades
          /\ LET closed == trades'[Len(trades')]
                 old    == Unwrap(StepOld)
             IN  /\ closed.entry_time = old.entry_time
                 /\ closed.entry_price = old.entry_price
                 /\ closed.position_type = old.position_type
                 /\ closed.quantity = old.quantity
                 /\ closed.exit_time = Some(StepTick.timestamp)
                 /\ closed.exit_price = Some(StepTick.price)
          /\ IsSome(StepNew)
          /\ Unwrap(StepNew).position_type = Opposite(Unwrap(StepOld).position_type)
          /\ Unwrap(StepNew).entry_price = StepTick.price
          /\ Unwrap(StepNew).entry_time = StepTick.timestamp
          /\ Unwrap(StepNew).exit_time = None
      ]_vars

\* a Long was closed and a Short entered at the tick that closed it
C3_Witness ==
    /\ Len(trades) = 1
    /\ trades[1].position_type = "Long"
    /\ \E s \in Symbols :
          /\ Holds(PositionOf(current_position, s), "Short")
          /\ Some(Unwrap(PositionOf(current_position, s)).entry_time) = trades[1].exit_time

C5_HistoryOnlyGrows ==
    [][pc = "loop" =>
          /\ Len(trades') >= Len(trades)
          /\ SubSeq(trades', 1, Len(trades)) = trades
          /\ Len(trades') > Len(trades) =>
                /\ IsIteration
                /\ Len(trades') = Len(trades) + 1
                /\ IsSome(StepOld)
                /\ trades'[Len(trades')].entry_time = Unwrap(StepOld).entry_time
                /\ trades'[Len(trades')].entry_price = Unwrap(StepOld).entry_price
                /\ trades'[Len(trades')].position_type = Unwrap(StepOld).position_type
                /\ IsSome(trades'[Len(trades')].exit_time)
      ]_vars

\* a tick was processed after a trade was closed, and a second trade was closed
C5_Witness ==
    /\ pc = "loop" /\ Len(trades) = 2
    /\ i > Unwrap(trades[1].exit_time)

(***************************************************************************)
(* Properties of run_backtest as a whole.                                  *)
(***************************************************************************)
Config ==
    [initial_capital |-> initial_capital, position_size |-> position_size,
     commission_rate |-> commission_rate]

\* C6: after run_backtest returns on an input of n ticks the equity curve has
\* n+1 points: a seed point with equity initial_capital and drawdown 0, then
\* one point per input tick in input order; also on a reused engine and for n = 0.
C6_EquityCurveLength ==
    pc = "done" =>
        /\ Len(equity_curve) = Len(data) + 1
        /\ equity_curve[1].equity = initial_capital
        /\ equity_curve[1].drawdown = R(0)
        /\ \A k \in 1..Len(data) : equity_curve[k + 1].timestamp = data[k].timestamp

\* a second run on the same engine returned on an input of two or more ticks
C6_Witness == pc = "done" /\ reused /\ Len(data) >= 2

\* the step is the return of run_backtest
IsReturn == pc = "loop" /\ pc' = "done"

\* the returning call repeats the mode and the input of the call whose result was kept
RepeatsKept ==
    /\ IsSome(kept)
    /\ Unwrap(kept).strategy_mode = strategy_mode
    /\ Unwrap(kept).data = data

\* C7: the result returned by a run on a reused engine equals the result of
\* the same run (same configuration, mode and input) on an engine just
\* constructed, whenever that run is made.
C7_ReuseEqualsFresh ==
    [][(IsReturn /\ reused) =>
          \A built \in 0..MaxClock : \A now \in built..MaxClock :
              Unwrap(result') = RunBacktestOnNew(Config, strategy_mode, data, built, now)
      ]_vars

\* a run on a reused engine returned closed trades
C7_Witness == pc = "done" /\ reused /\ Unwrap(result).total_trades >= 1

\* C8: two runs with the same configuration, mode and input return the same
\* BacktestResult.
C8_Deterministic ==
    [][(IsReturn /\ RepeatsKept) => Unwrap(result') = Unwrap(kept).result]_vars

\* a later run repeated the mode and input of the kept run and closed a trade
C8_Witness ==
    /\ pc = "done" /\ reused /\ RepeatsKept
    /\ Unwrap(result) = Unwrap(kept).result
    /\ Unwrap(result).total_trades >= 1
    /\ clock > Unwrap(kept).equity_curve[1].timestamp

\* C9: the seed EquityPoint's timestamp derives from the configuration or the
\* input, so two runs with the same configuration, mode and input leave the
\* same equity curve.
C9_SeedTimestampFromInput ==
    [][(IsReturn /\ RepeatsKept) => equity_curve' = Unwrap(kept).equity_curve]_vars

\* C10: no run starts on an engine whose initial_capital or position_size is
\* not positive or whose commission_rate is negative.
C10_ConfigValidated ==
    pc \in {"loop", "done"} =>
        /\ RGt(initial_capital, R(0))
        /\ RGt(position_size, R(0))
        /\ ~RLt(commission_rate, R(0))

(***************************************************************************)
(* Properties of the signal aggregator.                                    *)
(***************************************************************************)
\* the pair <<A, B>> of producer outputs on the element the step reads
StepPair == <<StepTick.rsi_signal, StepTick.bollinger_signal>>

\* the pair of producer outputs on element k of the input read so far
PairAt(k) == <<data[k].rsi_signal, data[k].bollinger_signal>>

\* one producer says Buy and the other Sell
StrictlyDisagree(pair) == pair \in {<<"Buy", "Sell">>, <<"Sell", "Buy">>}

\* the ledger is as the step found it
LedgerUntouched == current_position' = current_position /\ trades' = trades

\* the agreement table of Combined mode, row A, column B
CombinedTable ==
    [pair \in AllSignals |->
        CASE pair = <<"Buy",  "Buy">>  -> Some("Buy")
          [] pair = <<"Buy",  "Sell">> -> None
          [] pair = <<"Buy",  "Hold">> -> Some("Buy")
          [] pair = <<"Sell", "Buy">>  -> None
          [] pair = <<"Sell", "Sell">> -> Some("Sell")
          [] pair = <<"Sell", "Hold">> -> Some("Sell")
          [] pair = <<"Hold", "Buy">>  -> Some("Buy")
          [] pair = <<"Hold", "Sell">> -> Some("Sell")
          [] pair = <<"Hold", "Hold">> -> None]

\* C11: in Combined mode the decision of every tick is the entry of the 3x3
\* table for the pair (A, B): Buy leaves a Long, Sell leaves a Short, and on
\* (Buy,Sell), (Sell,Buy) and (Hold,Hold) the ledger is not invoked.
C11_CombinedTable ==
    [][(IsIteration /\ strategy_mode = "Combined") =>
          /\ StepDecision = CombinedTable[StepPair]
          /\ CombinedTable[StepPair] = Some("Buy")  => Holds(StepNew, "Long")
          /\ CombinedTable[StepPair] = Some("Sell") => Holds(StepNew, "Short")
          /\ CombinedTable[StepPair] = None => LedgerUntouched
      ]_vars

\* Combined mode: (Hold,Buy) opened a Long, (Hold,Hold) kept it, (Sell,Hold) reversed it
C11_Witness ==
    /\ pc = "loop" /\ i = 3 /\ strategy_mode = "Combined"
    /\ PairAt(1) = <<"Hold", "Buy">>
    /\ PairAt(2) = <<"Hold", "Hold">>
    /\ PairAt(3) = <<"Sell", "Hold">>
    /\ Len(trades) = 1 /\ trades[1].entry_time = 1 /\ trades[1].exit_time = Some(3)
    /\ Holds(PositionOf(current_position, data[3].symbol), "Short")

\* C12: in Combined mode, whenever a decision is taken and B is not Hold the
\* decision is B's signal (so also whenever both producers are active), and A's
\* signal is the decision only when B is Hold.
C12_TieBreak ==
    [][(IsIteration /\ strategy_mode = "Combined" /\ IsSome(StepDecision)) =>
          /\ StepPair[2] # "Hold" => StepDecision = Some(StepPair[2])
          /\ StepPair[2] = "Hold" => StepDecision = Some(StepPair[1])
          /\ StepDecision # Some(StepPair[2]) => StepPair[2] = "Hold"
          /\ Holds(StepNew, IF Unwrap(StepDecision) = "Buy" THEN "Long" ELSE "Short")
      ]_vars

\* Combined mode: B alone opened a Short on (Hold,Sell), then A alone reversed
\* it on (Buy,Hold)
C12_Witness ==
    /\ pc = "loop" /\ i = 2 /\ strategy_mode = "Combined"
    /\ PairAt(1) = <<"Hold", "Sell">>
    /\ PairAt(2) = <<"Buy", "Hold">>
    /\ Len(trades) = 1 /\ trades[1].position_type = "Short"
    /\ Holds(PositionOf(current_position, data[2].symbol), "Long")

\* C13, as stated: in Combined mode the ledger holds no position after a tick
\* on which one producer says Buy and the other Sell.
C13_NoPositionOnDisagreement ==
    [][(IsIteration /\ strategy_mode = "Combined" /\ StrictlyDisagree(StepPair)) =>
          StepNew = None
      ]_vars

\* C13, amended: in Combined mode a tick on which one producer says Buy and the
\* other Sell opens, closes and reverses nothing: the ledger is left as the tick
\* found it, Flat if it was Flat and holding the same position if it held one.
C13_NoTradeOnDisagreement ==
    [][(IsIteration /\ strategy_mode = "Combined" /\ StrictlyDisagree(StepPair)) =>
          /\ LedgerUntouched
          /\ StepOld = None => StepNew = None
      ]_vars

\* Combined mode: a Long opened on (Buy,Buy) is still held after a (Sell,Buy)
\* tick, and nothing was closed
C13_Witness ==
    /\ pc = "loop" /\ i = 2 /\ strategy_mode = "Combined"
    /\ PairAt(1) = <<"Buy", "Buy">>
    /\ PairAt(2) = <<"Sell", "Buy">>
    /\ trades = <<>>
    /\ Holds(PositionOf(current_position, data[2].symbol), "Long")
    /\ Unwrap(PositionOf(current_position, data[2].symbol)).entry_time = 1

\* the signal of the producer a single-producer mode selects
Selected(mode, pair) == IF mode = "Rsi" THEN pair[1] ELSE pair[2]

\* the pair with the output of the producer the mode does not select replaced
WithUnselected(mode, pair, other) ==
    IF mode = "Rsi" THEN <<pair[1], other>> ELSE <<other, pair[2]>>

\* C14: in mode Rsi the decision applied to the ledger is A's signal and in
\* mode BollingerBands it is B's; the trades, positions and equity curve after
\* the tick are those the tick gives with any other output of the unselected
\* producer.
C14_SingleProducerModes ==
    [][(IsIteration /\ strategy_mode \in {"Rsi", "BollingerBands"}) =>
          /\ StepDecision = Some(Selected(strategy_mode, StepPair))
          /\ Selected(strategy_mode, StepPair) = "Buy"  => Holds(StepNew, "Long")
          /\ Selected(strategy_mode, StepPair) = "Sell" => Holds(StepNew, "Short")
          /\ Selected(strategy_mode, StepPair) = "Hold" => LedgerUntouched
          /\ \A other \in SignalType :
                LET pair == WithUnselected(strategy_mode, StepPair, other)
                    alt  == LoopBody(Self, StepTick, pair[1], pair[2])
                IN  /\ alt.trades = trades'
                    /\ alt.current_position = current_position'
                    /\ alt.equity_curve = equity_curve'
      ]_vars

\* mode Rsi: A opened a Long while B said Sell, and A reversed it while B said Buy
C14_Witness ==
    /\ pc = "loop" /\ i = 2 /\ strategy_mode = "Rsi"
    /\ PairAt(1) = <<"Buy", "Sell">>
    /\ PairAt(2) = <<"Sell", "Buy">>
    /\ Len(trades) = 1 /\ trades[1].position_type = "Long"
    /\ Holds(PositionOf(current_position, data[2].symbol), "Short")

(***************************************************************************)
(* Properties of realized PnL, equity and drawdown.                        *)
(***************************************************************************)
\* the price move in favour of a closed trade: exit - entry for a Long,
\* entry - exit for a Short
FavourableMove(trade) ==
    IF trade.position_type = "Long"
    THEN RSub(Unwrap(trade.exit_price), trade.entry_price)
    ELSE RSub(trade.entry_price, Unwrap(trade.exit_price))

\* C15: every closed trade has pnl = (exit - entry) * quantity - commission for
\* a Long and (entry - exit) * quantity - commission for a Short, where the
\* commission is position_size * commission_rate whatever the exit price and
\* the quantity (1 for position_size 1000 and commission_rate 0.001).
C15_RealizedPnl ==
    \A k \in 1..Len(trades) :
        LET commission == RMul(position_size, commission_rate)
            gross      == RMul(FavourableMove(trades[k]), trades[k].quantity)
        IN  /\ trades[k].pnl = Some(RSub(gross, commission))
            /\ RSub(gross, Unwrap(trades[k].pnl)) = commission
            /\ (position_size = R(1000) /\ commission_rate = RNorm(1, 1000))
                  => commission = R(1)

\* a Long of quantity 10 closed at 200 with pnl 999, then a Short of quantity 5
\* closed at 100 with pnl 499
C15_Witness ==
    /\ Len(trades) = 2
    /\ trades[1].position_type = "Long" /\ trades[1].quantity = R(10)
    /\ trades[1].exit_price = Some(R(200)) /\ trades[1].pnl = Some(R(999))
    /\ trades[2].position_type = "Short" /\ trades[2].quantity = R(5)
    /\ trades[2].exit_price = Some(R(100)) /\ trades[2].pnl = Some(R(499))

\* the EquityPoint the step pushed
StepPoint == equity_curve'[Len(equity_curve')]

\* C16: the equity recorded for a tick is initial_capital plus the unrealized
\* pnl, at the tick's price, of the position open after the tick's decision,
\* with no pnl of closed trades in it; it is initial_capital when the ledger is
\* Flat after the tick and when the position was entered at the tick.
C16_EquityFromOpenPosition ==
    [][IsIteration =>
          /\ Len(equity_curve') = Len(equity_curve) + 1
          /\ StepPoint.equity =
                (IF StepNew = None THEN initial_capital
                 ELSE LET trade == Unwrap(StepNew)
                          move  == IF trade.position_type = "Long"
                                   THEN RSub(StepTick.price, trade.entry_price)
                                   ELSE RSub(trade.entry_price, StepTick.price)
                      IN  RAdd(initial_capital, RMul(move, trade.quantity)))
          /\ (StepNew = None \/ Unwrap(StepNew).entry_time = StepTick.timestamp)
                => StepPoint.equity = initial_capital
      ]_vars

\* a Long was closed with pnl 999 at the second tick, where the equity is the
\* initial capital; at the third tick the equity is 1500, the capital plus the
\* 500 the open Short has gained
C16_Witness ==
    /\ pc = "loop" /\ i = 3 /\ Len(trades) = 1
    /\ trades[1].pnl = Some(R(999)) /\ trades[1].exit_time = Some(2)
    /\ initial_capital = R(1000)
    /\ equity_curve[3].equity = R(1000)
    /\ equity_curve[4].equity = R(1500)

\* C17: the drawdown stored in every EquityPoint is (initial_capital - equity) /
\* initial_capital; it is negative wherever the equity exceeds initial_capital,
\* and there it differs from the max_drawdown of the result.
C17_PerTickDrawdown ==
    \A k \in 1..Len(equity_curve) :
        /\ equity_curve[k].drawdown =
              RDiv(RSub(initial_capital, equity_curve[k].equity), initial_capital)
        /\ RGt(equity_curve[k].equity, initial_capital) =>
              /\ RLt(equity_curve[k].drawdown, R(0))
              /\ pc = "done" => equity_curve[k].drawdown # Unwrap(result).max_drawdown

\* the run returned max_drawdown 1/2 after the equity went 2000 then 1000: the
\* stored drawdowns are -1 and 0
C17_Witness ==
    /\ pc = "done" /\ Len(equity_curve) >= 4
    /\ equity_curve[3].equity = R(2000) /\ equity_curve[3].drawdown = R(-1)
    /\ equity_curve[4].equity = R(1000) /\ equity_curve[4].drawdown = R(0)
    /\ Unwrap(result).max_drawdown = RNorm(1, 2)

\* the greatest element of a non-empty finite set of values
RMaxOf(S) == CHOOSE x \in S : \A y \in S : ~RLt(x, y)

\* the running peak at point k: the greatest of initial_capital and the
\* equities up to point k
PeakAt(k) == RMaxOf({initial_capital} \cup {equity_curve[j].equity : j \in 1..k})

\* C18: the max_drawdown of the result is the greatest over the equity curve of
\* (peak - equity) / peak, the peak being the greatest of initial_capital and
\* the equities so far; it is never negative.
C18_MaxDrawdown ==
    pc = "done" =>
        /\ Unwrap(result).max_drawdown =
              RMaxOf({R(0)} \cup
                     { RDiv(RSub(PeakAt(k), equity_curve[k].equity), PeakAt(k)) :
                          k \in 1..Len(equity_curve) })
        /\ ~RLt(Unwrap(result).max_drawdown, R(0))

\* the equity rose to 2000 and fell to 1000: the drawdown 1/2 is taken against
\* the raised peak
C18_Witness ==
    /\ pc = "done" /\ Len(equity_curve) = 4
    /\ equity_curve[3].equity = R(2000)
    /\ equity_curve[4].equity = R(1000)
    /\ PeakAt(4) = R(2000)
    /\ Unwrap(result).max_drawdown = RNorm(1, 2)

\* the prices of the input rise strictly from each tick to the next
StrictlyRising == \A k \in 1..(Len(data) - 1) : RLt(data[k].price, data[k + 1].price)

\* no closed trade is a losing one (calculate_results counts pnl <= 0 as losing)
NoLosingTrade == \A k \in 1..Len(trades) : RGt(Unwrap(trades[k].pnl), R(0))

\* C19: a run on a strictly increasing price series in which no closed trade
\* is losing returns max_drawdown 0.
C19_RisingNoDrawdown ==
    (pc = "done" /\ StrictlyRising /\ NoLosingTrade) =>
        Unwrap(result).max_drawdown = R(0)

\* the period returns with 0 in place of a quotient by a previous equity of 0
GuardedReturns(curve) ==
    IF Len(curve) >= 2
    THEN [k \in 1..(Len(curve) - 1) |->
            IF curve[k].equity = R(0) THEN R(0)
            ELSE RDiv(RSub(curve[k + 1].equity, curve[k].equity), curve[k].equity)]
    ELSE <<>>

\* C20: no result is computed by a division by zero: the Sharpe ratio is the
\* one of the period returns with 0 for a return whose previous equity is 0,
\* and max_drawdown and every stored drawdown are finite numbers.
C20_ZeroDenominatorsGuarded ==
    pc = "done" =>
        /\ Unwrap(result).sharpe_ratio = SharpeRatio(GuardedReturns(equity_curve))
        /\ IsFinite(Unwrap(result).max_drawdown)
        /\ \A k \in 1..Len(equity_curve) : IsFinite(equity_curve[k].drawdown)

(***************************************************************************)
(* Properties of the summary statistics of a BacktestResult.               *)
(***************************************************************************)
\* the return of period k: from equity point k to equity point k + 1
PeriodReturn(k) ==
    RDiv(RSub(equity_curve[k + 1].equity, equity_curve[k].equity), equity_curve[k].equity)

ZeroSharpe == [sign |-> 0, square |-> R(0)]

\* C21: the returns of a run are one per consecutive pair of equity points, the
\* seed point included, len(input) in all; the Sharpe ratio is exactly 0 when
\* there is none and when they are all equal, as on a constant equity curve.
C21_SharpeZero ==
    pc = "done" =>
        /\ Len(Returns(equity_curve)) = Len(data)
        /\ \A k \in 1..Len(data) : Returns(equity_curve)[k] = PeriodReturn(k)
        /\ (\A j, k \in 1..Len(data) : PeriodReturn(j) = PeriodReturn(k))
              => Unwrap(result).sharpe_ratio = ZeroSharpe
        /\ (\A k \in 1..Len(equity_curve) : equity_curve[k].equity = initial_capital)
              => Unwrap(result).sharpe_ratio = ZeroSharpe

\* a run of three ticks that holds a position from the first tick at an
\* unchanged price: three returns, all 0, and Sharpe ratio 0
C21_Witness ==
    /\ pc = "done" /\ Len(data) = 3
    /\ \E s \in Symbols : /\ IsSome(PositionOf(current_position, s))
                          /\ Unwrap(PositionOf(current_position, s)).entry_time = 1
    /\ \A k \in 1..3 : PeriodReturn(k) = R(0)
    /\ Unwrap(result).sharpe_ratio = ZeroSharpe

\* C22: total_trades is the number of closed trades in the trade list of the
\* result and equals winning_trades + losing_trades.
C22_TradeCounts ==
    pc = "done" =>
        /\ Unwrap(result).total_trades = Len(Unwrap(result).trades)
        /\ Unwrap(result).total_trades =
              Unwrap(result).winning_trades + Unwrap(result).losing_trades

\* a run returned one winning and one losing trade
C22_Witness ==
    /\ pc = "done"
    /\ Unwrap(result).total_trades = 2
    /\ Unwrap(result).winning_trades = 1
    /\ Unwrap(result).losing_trades = 1

\* C23: win_rate is winning_trades / total_trades, between 0 and 1, and is 0
\* when total_trades is 0.
C23_WinRate ==
    pc = "done" =>
        LET r == Unwrap(result)
        IN  /\ r.total_trades > 0 =>
                  r.win_rate = RDiv(R(r.winning_trades), R(r.total_trades))
            /\ r.total_trades = 0 => r.win_rate = R(0)
            /\ ~RLt(r.win_rate, R(0))
            /\ ~RGt(r.win_rate, R(1))
            /\ IsFinite(r.win_rate)

\* a run returned win_rate 1/2 on two closed trades
C23_Witness ==
    /\ pc = "done"
    /\ Unwrap(result).total_trades = 2
    /\ Unwrap(result).win_rate = RNorm(1, 2)

\* the closed trades of the result whose pnl is positive
WinningIn(r) == {k \in 1..Len(r.trades) : RGt(Unwrap(r.trades[k].pnl), R(0))}

\* C24: every closed trade of the result is counted once, as winning when its
\* pnl is positive and as losing otherwise; a trade with pnl 0 is a losing one.
C24_WinLossBoundary ==
    pc = "done" =>
        LET r == Unwrap(result)
        IN  /\ \A k \in 1..Len(r.trades) : IsSome(r.trades[k].pnl)
            /\ r.winning_trades = Cardinality(WinningIn(r))
            /\ r.losing_trades = Cardinality((1..Len(r.trades)) \ WinningIn(r))
            /\ (\A k \in 1..Len(r.trades) : r.trades[k].pnl = Some(R(0)))
                  => r.winning_trades = 0 /\ r.losing_trades = Len(r.trades)

\* with commission_rate 0: a trade closed with pnl 500 and a trade closed at
\* its entry price with pnl 0, counted one winning and one losing
C24_Witness ==
    /\ pc = "done" /\ commission_rate = R(0)
    /\ Len(Unwrap(result).trades) = 2
    /\ Unwrap(result).trades[1].pnl = Some(R(500))
    /\ Unwrap(result).trades[2].pnl = Some(R(0))
    /\ Unwrap(result).trades[2].exit_price = Some(Unwrap(result).trades[2].entry_price)
    /\ Unwrap(result).winning_trades = 1
    /\ Unwrap(result).losing_trades = 1

\* the sum of the pnl of the trades from the k-th on
RECURSIVE PnlFrom(_, _)
PnlFrom(ts, k) ==
    IF k > Len(ts) THEN R(0) ELSE RAdd(Unwrap(ts[k].pnl), PnlFrom(ts, k + 1))

\* C25: total_pnl is the sum of the pnl of the closed trades in the trade list
\* of the result; the position open at the end of the run adds nothing to it.
C25_TotalPnl ==
    pc = "done" =>
        Unwrap(result).total_pnl = PnlFrom(Unwrap(result).trades, 1)

\* a run closed one trade with pnl 499 and ended with a Long worth 1000 more
\* than at its entry: total_pnl is 499
C25_Witness ==
    /\ pc = "done" /\ Len(data) = 3
    /\ Len(Unwrap(result).trades) = 1
    /\ Unwrap(result).trades[1].pnl = Some(R(499))
    /\ \E s \in Symbols : Holds(PositionOf(current_position, s), "Long")
    /\ equity_curve[4].equity = R(2000)
    /\ Unwrap(result).total_pnl = R(499)

\* the input read so far has one price throughout and Hold from both producers
FlatAndHold ==
    \A k \in 1..Len(data) :
        /\ data[k].price = data[1].price
        /\ PairAt(k) = <<"Hold", "Hold">>

\* C26: on a flat price series with both producers at Hold on every tick, in
\* every strategy mode, the ledger stays Flat, every equity point is
\* initial_capital, and the result has total_trades 0 and total_pnl 0.
C26_FlatHold ==
    (pc \in {"loop", "done"} /\ FlatAndHold) =>
        /\ trades = <<>>
        /\ \A s \in Symbols : PositionOf(current_position, s) = None
        /\ \A k \in 1..Len(equity_curve) : equity_curve[k].equity = initial_capital
        /\ pc = "done" =>
              /\ Unwrap(result).total_trades = 0
              /\ Unwrap(result).total_pnl = R(0)

\* a run in mode Rsi over three ticks of Hold from both producers returned
C26_Witness ==
    /\ pc = "done" /\ Len(data) = 3 /\ FlatAndHold
    /\ strategy_mode = "Rsi"
    /\ Len(equity_curve) = 4
    /\ Unwrap(result).total_trades = 0

(***************************************************************************)
(* Properties of the indicator processor.                                  *)
(***************************************************************************)
\* the newest n of the prices passed to process_data (all when fewer), oldest first
LastArrived(n) ==
    LET m == IF Len(arrived) < n THEN Len(arrived) ELSE n
    IN  SubSeq(arrived, Len(arrived) - m + 1, Len(arrived))

\* C27: after any sequence of process_data calls the price window holds at
\* most max_history_size prices: the most recent min(n, max_history_size) of
\* the n prices processed, in arrival order; for capacities 0 and 1 as well.
C27_PriceWindow ==
    /\ Len(price_history) <= max_history_size
    /\ price_history = LastArrived(max_history_size)
    /\ max_history_size = 0 => price_history = <<>>
    /\ (max_history_size = 1 /\ arrived # <<>>) =>
          price_history = <<arrived[Len(arrived)]>>

\* a processor of capacity 2 has taken four prices and holds the third and the
\* fourth, the first having been evicted
C27_Witness ==
    /\ max_history_size = 2 /\ Len(arrived) = 4
    /\ arrived[1] # arrived[3]
    /\ arrived[3] # arrived[4]
    /\ price_history = <<arrived[3], arrived[4]>>

\* the arithmetic mean of the p prices processed last
MeanOfLast(p) == RDiv(RSum(LastArrived(p), p), R(p))

\* C28: process_data always returns; for p = 5 and p = 20 the moving average it
\* returns is absent while fewer than p prices are held and is otherwise the
\* arithmetic mean of the p prices processed last, the current one included
\* (13 once 10, 11, 12, 13, 14, 15 have been processed).
C28_MovingAverage ==
    /\ processed = None <=> arrived = <<>>
    /\ IsSome(processed) =>
          /\ Unwrap(processed).moving_average_5 =
                (IF Len(price_history) < 5 THEN None ELSE Some(MeanOfLast(5)))
          /\ Unwrap(processed).moving_average_20 =
                (IF Len(price_history) < 20 THEN None ELSE Some(MeanOfLast(20)))
          /\ arrived = <<R(10), R(11), R(12), R(13), R(14), R(15)>> =>
                Unwrap(processed).moving_average_5 = Some(R(13))

\* the prices 10, 11, ..., 30 have been processed: the 5-period average is 28
\* and the 20-period average 20.5
C28_Witness ==
    /\ Len(arrived) = 21 /\ arrived[1] = R(10) /\ arrived[21] = R(30)
    /\ IsSome(processed)
    /\ Unwrap(processed).moving_average_5 = Some(R(28))
    /\ Unwrap(processed).moving_average_20 = Some(RNorm(41, 2))

\* the `period` most recent price changes, oldest first
ChangesOldestFirst(history, period) ==
    [k \in 1..period |->
        RSub(history[Len(history) - period + k], history[Len(history) - period + k - 1])]

\* the RSI whose running averages are seeded with the oldest change of the
\* window and fold in each newer change, the newest last
RsiOldestFirst(history, period) ==
    IF Len(history) < period + 1 THEN None
    ELSE LET changes  == ChangesOldestFirst(history, period)
             alpha    == RDiv(R(2), R(period + 1))
             avg_gain == Ema(Gains(changes), alpha, period)
             avg_loss == Ema(Losses(changes), alpha, period)
         IN  IF avg_loss = R(0) THEN Some(R(100))
             ELSE Some(RSub(R(100), RDiv(R(100), RAdd(R(1), RDiv(avg_gain, avg_loss)))))

\* C29: calculate_rsi seeds the running averages with the oldest change of the
\* window and folds the newer changes in order, the newest last.
C29_RsiOldestFirst ==
    \A period \in 2..MaxPeriod :
        CalculateRsi(price_history, period) = RsiOldestFirst(price_history, period)

\* no price among the newest n + 1 held is lower than the one before it
NoFall(n) ==
    \A k \in (Len(price_history) - n + 1)..Len(price_history) :
        ~RLt(price_history[k], price_history[k - 1])

\* an RSI value is a number from 0 to 100
InRsiRange(v) == IsFinite(v) /\ ~RLt(v, R(0)) /\ ~RGt(v, R(100))

\* C30: the RSI(14) that process_data returns is absent while fewer than 15
\* prices are held; when present it is between 0 and 100, and it is exactly
\* 100 when no change in the window is a loss, as for 15 identical prices.
\* The same holds of calculate_rsi for the periods 2..MaxPeriod.
C30_RsiRange ==
    /\ IsSome(processed) =>
          LET rsi == Unwrap(processed).rsi_14
          IN  /\ rsi = None <=> Len(price_history) < 15
              /\ IsSome(rsi) => InRsiRange(Unwrap(rsi))
              /\ (IsSome(rsi) /\ NoFall(14)) => rsi = Some(R(100))
    /\ \A period \in 2..MaxPeriod :
          LET rsi == CalculateRsi(price_history, period)
          IN  /\ rsi = None <=> Len(price_history) < period + 1
              /\ IsSome(rsi) => InRsiRange(Unwrap(rsi))
              /\ (IsSome(rsi) /\ NoFall(period)) => rsi = Some(R(100))

\* fifteen identical prices have been processed and the RSI(14) returned is 100
C30_Witness ==
    /\ Len(arrived) = 15 /\ Len(price_history) = 15
    /\ \A k \in 1..15 : arrived[k] = arrived[1]
    /\ IsSome(processed)
    /\ Unwrap(processed).rsi_14 = Some(R(100))

(***************************************************************************)
(* Properties of the outlier flag.                                         *)
(***************************************************************************)
\* the prices test_outlier_detection passes to process_data, in its order
TestSeries == <<R(100), R(101), R(99), RNorm(201, 2), RNorm(203, 2), R(150)>>

C32_FarPriceFlagged ==
    (IsSome(processed) /\ arrived # <<>> /\ arrived = SubSeq(TestSeries, 1, Len(arrived))) =>
        (Unwrap(processed).is_outlier <=> Len(arrived) = 6)

(***************************************************************************)
(* Properties of process_batch.                                            *)
(***************************************************************************)
\* the window a processor of the given capacity holds once the prices of seq
\* have been processed one by one
WindowOf(seq, capacity) ==
    LET m == IF Len(seq) < capacity THEN Len(seq) ELSE capacity
    IN  SubSeq(seq, Len(seq) - m + 1, Len(seq))

\* C33: process_batch returns one ProcessedMarketData per element, in input
\* order; output k is what process_data returns for element k after the
\* elements before it, so it depends on the prior window and the elements up
\* to k only, and the window left is the one the single calls leave.
C33_BatchIsStepwise ==
    IsSome(processed_data) =>
        LET out == Unwrap(processed_data)
            n   == Len(out)
            m   == Len(arrived)
        IN  /\ n <= m
            /\ \A k \in 1..n :
                  /\ out[k].raw_data.price = arrived[m - n + k]
                  /\ out[k] = ProcessedMarketData(
                                  WindowOf(SubSeq(arrived, 1, m - n + k), max_history_size),
                                  arrived[m - n + k])
            /\ price_history = WindowOf(arrived, max_history_size)
            /\ n > 0 => processed = Some(out[n])

\* a vector of three prices was processed by a processor that already held
\* prices: the first output has no 5-period average, the second and the third
\* have different ones
C33_Witness ==
    /\ IsSome(processed_data)
    /\ Len(Unwrap(processed_data)) = 3
    /\ Len(arrived) > 3
    /\ Unwrap(processed_data)[1].moving_average_5 = None
    /\ IsSome(Unwrap(processed_data)[2].moving_average_5)
    /\ IsSome(Unwrap(processed_data)[3].moving_average_5)
    /\ Unwrap(processed_data)[2].moving_average_5 # Unwrap(processed_data)[3].moving_average_5

(***************************************************************************)
(* Properties that compare runs and describe the trade list.               *)
(***************************************************************************)
\* the caller kept the result of a run in mode Rsi on the input of this call
KeptRsiOnSameData ==
    /\ IsSome(kept)
    /\ Unwrap(kept).strategy_mode = "Rsi"
    /\ Unwrap(kept).data = data

\* the Bollinger producer is active on no element on which the RSI producer holds
ActiveOnlyWithRsi(d) ==
    \A k \in 1..Len(d) : d[k].bollinger_signal # "Hold" => d[k].rsi_signal # "Hold"

\* the closed trades of the returning Combined run are no more than those of a
\* run in mode Rsi on the same input, on a new engine and as kept by the caller
NoMoreTradesThanRsi ==
    /\ Unwrap(result').total_trades <=
          RunBacktestOnNew(Config, "Rsi", data, clock, clock).total_trades
    /\ KeptRsiOnSameData =>
          Unwrap(result').total_trades <= Unwrap(kept).result.total_trades

OpenPositions(positions) ==
    {Unwrap(positions[s]) : s \in {t \in DOMAIN positions : IsSome(positions[t])}}

\* C35: within a run a symbol that has left Flat never returns to Flat, every
\* later state of it being Long or Short; the return of run_backtest closes
\* nothing, so a position open after the last tick is in neither the trade
\* list nor total_pnl of the result.
C35_NeverBackToFlat ==
    [][/\ IsIteration =>
             \A s \in DOMAIN current_position :
                 IsSome(PositionOf(current_position, s)) =>
                     /\ IsSome(PositionOf(current_position', s))
                     /\ Unwrap(PositionOf(current_position', s)).position_type \in PositionType
       /\ IsReturn =>
             /\ current_position' = current_position
             /\ trades' = trades
             /\ Unwrap(result').trades = trades
             /\ Unwrap(result').total_trades = Len(trades)
             /\ Unwrap(result').total_pnl = PnlFrom(trades, 1)
             /\ \A open \in OpenPositions(current_position) :
                   /\ open.exit_time = None /\ open.exit_price = None /\ open.pnl = None
                   /\ \A k \in 1..Len(trades) :
                         /\ IsSome(trades[k].exit_time)
                         /\ trades[k].entry_time < open.entry_time
      ]_vars

\* a run of three ticks ended with the position of its first tick still open
\* and worth more than at its entry: no trade is listed and total_pnl is 0
C35_Witness ==
    /\ pc = "done" /\ Len(data) = 3
    /\ \E open \in OpenPositions(current_position) :
          /\ open.entry_time = data[1].timestamp
          /\ RGt(UnrealizedPnl(Some(open), data[3].price), R(0))
    /\ Unwrap(result).trades = <<>>
    /\ Unwrap(result).total_pnl = R(0)

\* the trade list is a chain: each trade is closed, and the next one has the
\* opposite direction and was entered at the time and price of that exit
ChainedTrades(ts) ==
    /\ \A k \in 1..Len(ts) :
          IsSome(ts[k].exit_time) /\ IsSome(ts[k].exit_price) /\ IsSome(ts[k].pnl)
    /\ \A k \in 1..(Len(ts) - 1) :
          /\ ts[k + 1].position_type = Opposite(ts[k].position_type)
          /\ ts[k + 1].entry_time = Unwrap(ts[k].exit_time)
          /\ ts[k + 1].entry_price = Unwrap(ts[k].exit_price)

\* C36: in the trade list of a single-instrument run consecutive closed trades
\* alternate direction, each trade's exit time and price are the entry time and
\* price of the next, and every listed trade has exit time, exit price and pnl.
C36_TradesAlternate ==
    /\ ChainedTrades(trades)
    /\ pc = "done" => ChainedTrades(Unwrap(result).trades)

\* a run returned two closed trades, the second entered at a price other than
\* the entry price of the first
C36_Witness ==
    /\ pc = "done"
    /\ Len(Unwrap(result).trades) = 2
    /\ Unwrap(result).trades[1].position_type # Unwrap(result).trades[2].position_type
    /\ Unwrap(result).trades[1].entry_price # Unwrap(result).trades[2].entry_price

\* the decisions taken so far in the run are all Hold or no decision
NoActiveDecisionYet ==
    \A k \in 1..Len(data) :
        TradeDecision(strategy_mode, data[k].rsi_signal, data[k].bollinger_signal)
            \in {None, Some("Hold")}

\* C37: an iteration appends at most one closed trade, and none when it takes
\* the first Buy or Sell of the run; so a run on n >= 1 ticks of one instrument
\* returns total_trades <= n - 1, and a run on no tick returns total_trades = 0.
C37_TradesBelowTicks ==
    [][/\ IsIteration =>
             /\ Len(trades') <= Len(trades) + 1
             /\ SubSeq(trades', 1, Len(trades)) = trades
             /\ NoActiveDecisionYet => trades' = <<>>
       /\ IsReturn =>
             /\ Len(data) >= 1 => Unwrap(result').total_trades <= Len(data) - 1
             /\ Len(data) = 0 => Unwrap(result').total_trades = 0
      ]_vars

\* a run on three ticks returned two closed trades, as many as three ticks allow
C37_Witness ==
    /\ pc = "done" /\ Len(data) = 3
    /\ Unwrap(result).total_trades = 2

(***************************************************************************)
(* Properties of a ledger that holds several instruments.                  *)
(***************************************************************************)
\* the trades the step appended
StepAppended == SubSeq(trades', Len(trades) + 1, Len(trades'))

\* C38: applying the decision for a tick of instrument X changes the ledger
\* entry of X only: the entry of every other instrument Y is as before, and
\* the only trade the step can append is the close of the position of X.  A
\* Trade carries no symbol: it is told apart by its entry time, every tick
\* having a time of its own.
C38_OtherInstrumentsUntouched ==
    [][IsIteration =>
          /\ SubSeq(trades', 1, Len(trades)) = trades
          /\ \A y \in Instruments \ {StepTick.symbol} :
                /\ y \in DOMAIN current_position' <=> y \in DOMAIN current_position
                /\ PositionOf(current_position', y) = PositionOf(current_position, y)
                /\ IsSome(PositionOf(current_position, y)) =>
                      \A k \in 1..Len(StepAppended) :
                          StepAppended[k].entry_time #
                              Unwrap(PositionOf(current_position, y)).entry_time
          /\ \A k \in 1..Len(StepAppended) :
                /\ IsSome(StepOld)
                /\ StepAppended[k].entry_time = Unwrap(StepOld).entry_time
                /\ StepAppended[k].exit_time = Some(StepTick.timestamp)
      ]_vars

\* the position of one instrument was opened at the first tick and is still
\* open after the position of the other, opened at the second tick, was
\* reversed at the third
C38_Witness ==
    /\ Len(data) = 3 /\ Len(trades) = 1
    /\ trades[1].entry_time = data[2].timestamp
    /\ trades[1].exit_time = Some(data[3].timestamp)
    /\ data[1].symbol # data[3].symbol
    /\ IsSome(PositionOf(current_position, data[1].symbol))
    /\ Unwrap(PositionOf(current_position, data[1].symbol)).entry_time = data[1].timestamp
    /\ IsSome(PositionOf(current_position, data[3].symbol))

====
